---- MODULE Spec2Model ----
(***************************************************************************)
(* Project Glitch: rolling statistics (train_glitch.calculate_rolling_stats,*)
(* get_team_stats of predict_glitch and glitch_engine), model loading and   *)
(* the multi-market predictors (predict_glitch.predict_all_markets,         *)
(* glitch_engine.predict_match_ml / predict_match_heuristic).               *)
(*                                                                          *)
(* Numbers that are floats in the program (averages, rates, percentages)    *)
(* are exact rationals <<num, den>> in lowest terms; form points are        *)
(* integers.  A training feature is a rational; NaN is <<0, 0>>.            *)
(***************************************************************************)
EXTENDS Integers, Sequences, FiniteSets, TLC

VARIABLES
    csv,            \* rows of master_data.csv, in file order
    n_games,        \* the window size passed to the statistics functions
    df,             \* the date-sorted frame (None before it is loaded)
    pc,             \* position of the running operation
    ret,            \* what the last get_team_stats call returned
    track,          \* calculate_rolling_stats: the tracking dictionaries
    rows_out,       \* calculate_rolling_stats: feature columns written so far
    csv_b,          \* a second history, for the two-run comparison
    df_b,           \* csv_b sorted by date
    track_b,        \* tracking dictionaries of the run over csv_b
    rows_out_b,     \* feature columns of the run over csv_b
    fs,             \* which artifact files exist beside the scripts
    model_out,      \* what the three pickled models answer (predict_proba)
    models_cache,   \* glitch_engine._models_cache
    config_cache,   \* glitch_engine._config_cache
    data_cache,     \* glitch_engine._data_cache
    result,         \* outcome of the prediction call that just returned
    gate_in,        \* arguments and injuries answers of a get_team_news call
    gate_out,       \* what that get_team_news call came to
    feat_in,        \* two stats objects and a schema handed to feature construction
    feat_out,       \* the one-row frame built from them
    reads,          \* how often load_models calls have opened each artifact file
    teams_out,      \* what the last get_available_teams call returned
    targets,        \* create_targets: the three target columns, one record per row
    split,          \* prepare_data and train_single_model: rows kept, train rows, test rows
    callers         \* position and return value of each caller inside glitch_engine.load_models

statsVars == <<csv, n_games, df, ret, track, rows_out>>
pairVars == <<csv_b, df_b, track_b, rows_out_b>>
predVars == <<fs, model_out, models_cache, config_cache, data_cache, result>>
scoutVars == <<gate_in, gate_out>>
featVars == <<feat_in, feat_out>>
loadVars == <<reads>>
teamsVars == <<teams_out>>
trainVars == <<targets, split>>
raceVars == <<callers>>
vars == <<statsVars, pairVars, predVars, scoutVars, featVars, loadVars, teamsVars, trainVars, raceVars, pc>>

----------------------------------------------------------------------------
(* Bounds of the model *)

MaxLen == 3
MaxUnsortedLen == 2
MaxN == 2
ProbGrain == 2

(* n_games: int = 5, the default window of every statistics function *)
DefaultNGames == 5

----------------------------------------------------------------------------
(* Rationals *)

RECURSIVE GCD(_, _)
GCD(a, b) == IF b = 0 THEN a ELSE GCD(b, a % b)

Frac(n, d) == LET g == GCD(n, d) IN <<n \div g, d \div g>>

RECURSIVE SumSeq(_)
SumSeq(s) == IF s = <<>> THEN 0 ELSE Head(s) + SumSeq(Tail(s))

Mean(s) == Frac(SumSeq(s), Len(s))

----------------------------------------------------------------------------
(* Match records and histories *)

HistoryTeams == {"Arsenal", "Chelsea"}
UnknownTeamName == "Atlantis"
QueryTeams == HistoryTeams \cup {UnknownTeamName}

Fixtures == {f \in HistoryTeams \X HistoryTeams : f[1] # f[2]}
Scorelines == {<<0, 0>>, <<1, 0>>, <<0, 1>>, <<1, 1>>, <<2, 1>>}

FTROf(hg, ag) == IF hg > ag THEN "H" ELSE IF hg = ag THEN "D" ELSE "A"

MkRow(d, home, away, hg, ag) ==
    [Date |-> d, HomeTeam |-> home, AwayTeam |-> away,
     FTHG |-> hg, FTAG |-> ag, FTR |-> FTROf(hg, ag)]

(* histories of k matches on days 1..k, in date order, scores drawn from S *)
RowsOn(k, S, first) ==
    {[i \in 1..k |-> MkRow(first + i - 1, c[i][1][1], c[i][1][2],
                                          c[i][2][1], c[i][2][2])] :
        c \in [1..k -> Fixtures \X S]}

HistoriesOver(k, S) == RowsOn(k, S, 1)

HistoriesOfLen(k) == HistoriesOver(k, Scorelines)

Histories == UNION {HistoriesOfLen(k) : k \in 0..MaxLen}

Reverse(s) == [i \in 1..Len(s) |-> s[Len(s) + 1 - i]]

(* spec scenario: five Arsenal home matches against Chelsea, H,H,D,A,H *)
ScenarioDf ==
    << MkRow(1, "Arsenal", "Chelsea", 1, 0),
       MkRow(2, "Arsenal", "Chelsea", 1, 0),
       MkRow(3, "Arsenal", "Chelsea", 1, 1),
       MkRow(4, "Arsenal", "Chelsea", 0, 1),
       MkRow(5, "Arsenal", "Chelsea", 1, 0) >>

(* the file lists the matches oldest first, or (short files) newest first *)
RawInputs ==
    Histories
    \cup {Reverse(h) : h \in UNION {HistoriesOfLen(k) : k \in 0..MaxUnsortedLen}}
    \cup {ScenarioDf}

NGames == (1..MaxN) \cup {DefaultNGames}

None == [ok |-> FALSE, rows |-> <<>>]
Some(rows) == [ok |-> TRUE, rows |-> rows]

----------------------------------------------------------------------------
(* df.sort_values('Date').reset_index(drop=True): insertion sort by Date *)

RECURSIVE InsertByDate(_, _)
InsertByDate(r, s) ==
    IF s = <<>> THEN <<r>>
    ELSE IF r.Date < Head(s).Date THEN <<r>> \o s
    ELSE <<Head(s)>> \o InsertByDate(r, Tail(s))

RECURSIVE SortByDate(_)
SortByDate(s) ==
    IF s = <<>> THEN <<>>
    ELSE InsertByDate(s[Len(s)], SortByDate(SubSeq(s, 1, Len(s) - 1)))

(* mutant: the window is never cut to the last n rows *)
TailNWholeFrame(s, n) == s

(* DataFrame.tail(n) *)
TailN(s, n) == IF Len(s) <= n THEN s ELSE SubSeq(s, Len(s) - n + 1, Len(s))

HomeGamesOf(rows, team) == SelectSeq(rows, LAMBDA r : r.HomeTeam = team)
AwayGamesOf(rows, team) == SelectSeq(rows, LAMBDA r : r.AwayTeam = team)
AllGamesOf(rows, team) ==
    SelectSeq(rows, LAMBDA r : r.HomeTeam = team \/ r.AwayTeam = team)

(* set(df['HomeTeam'].unique()) | set(df['AwayTeam'].unique()) *)
TeamsIn(rows) ==
    {rows[i].HomeTeam : i \in 1..Len(rows)} \cup {rows[i].AwayTeam : i \in 1..Len(rows)}

----------------------------------------------------------------------------
(* get_team_stats, shared pieces (identical text in both modules) *)

DefaultStats ==
    [form |-> 7, avg_goals |-> Frac(13, 10), avg_conceded |-> Frac(12, 10),
     btts_rate |-> Frac(50, 1)]

(* mutant: every row is scored as a home match of team_name *)
RowPointsAsHome(row, team_name) ==
    IF row.FTR = "H" THEN 3 ELSE IF row.FTR = "D" THEN 1 ELSE 0

(* points of one row for team_name: the side is decided per row *)
RowPoints(row, team_name) ==
    IF row.HomeTeam = team_name
    THEN (IF row.FTR = "H" THEN 3 ELSE IF row.FTR = "D" THEN 1 ELSE 0)
    ELSE (IF row.FTR = "A" THEN 3 ELSE IF row.FTR = "D" THEN 1 ELSE 0)

(* form = 0; for _, row in venue_games.iterrows(): form += ... *)
RECURSIVE FormLoop(_, _)
FormLoop(venue_games, team_name) ==
    IF venue_games = <<>> THEN 0
    ELSE RowPoints(Head(venue_games), team_name)
         + FormLoop(Tail(venue_games), team_name)

Column(rows, col) == [i \in 1..Len(rows) |-> rows[i][col]]

BttsCount(rows) ==
    Cardinality({i \in 1..Len(rows) : rows[i].FTHG > 0 /\ rows[i].FTAG > 0})

(* mutant: the rates are taken over the team's last n matches at any venue *)
VenueRatesAnyVenue(rows, team_name, is_home, n) ==
    LET games == TailN(AllGamesOf(rows, team_name), n)
        own == [i \in 1..Len(games) |->
                   IF games[i].HomeTeam = team_name THEN games[i].FTHG ELSE games[i].FTAG]
        opp == [i \in 1..Len(games) |->
                   IF games[i].HomeTeam = team_name THEN games[i].FTAG ELSE games[i].FTHG]
    IN IF Len(games) > 0
       THEN [avg_goals |-> Mean(own), avg_conceded |-> Mean(opp),
             btts_rate |-> Frac(BttsCount(games) * 100, Len(games))]
       ELSE [avg_goals |-> Frac(13, 10), avg_conceded |-> Frac(12, 10),
             btts_rate |-> Frac(50, 1)]

(* "Calculate venue-specific goals": avg_goals, avg_conceded, btts_rate *)
VenueRates(rows, team_name, is_home, n) ==
    IF is_home
    THEN LET home_games == TailN(HomeGamesOf(rows, team_name), n) IN
         IF Len(home_games) > 0
         THEN [avg_goals |-> Mean(Column(home_games, "FTHG")),
               avg_conceded |-> Mean(Column(home_games, "FTAG")),
               btts_rate |-> Frac(BttsCount(home_games) * 100, Len(home_games))]
         ELSE [avg_goals |-> Frac(13, 10), avg_conceded |-> Frac(12, 10),
               btts_rate |-> Frac(50, 1)]
    ELSE LET away_games == TailN(AwayGamesOf(rows, team_name), n) IN
         IF Len(away_games) > 0
         THEN [avg_goals |-> Mean(Column(away_games, "FTAG")),
               avg_conceded |-> Mean(Column(away_games, "FTHG")),
               btts_rate |-> Frac(BttsCount(away_games) * 100, Len(away_games))]
         ELSE [avg_goals |-> Frac(11, 10), avg_conceded |-> Frac(14, 10),
               btts_rate |-> Frac(50, 1)]

(* mutant: no early return for an empty window *)
StatsOfNoEmptyReturn(venue_games, rows, team_name, is_home, n) ==
    LET r == VenueRates(rows, team_name, is_home, n) IN
    [form |-> FormLoop(venue_games, team_name),
     avg_goals |-> r.avg_goals, avg_conceded |-> r.avg_conceded,
     btts_rate |-> r.btts_rate]

StatsOf(venue_games, rows, team_name, is_home, n) ==
    IF Len(venue_games) = 0 THEN DefaultStats
    ELSE LET r == VenueRates(rows, team_name, is_home, n) IN
         [form |-> FormLoop(venue_games, team_name),
          avg_goals |-> r.avg_goals, avg_conceded |-> r.avg_conceded,
          btts_rate |-> r.btts_rate]

----------------------------------------------------------------------------
(* predict_glitch.get_team_stats *)

(* the window the form is summed over: venue games, all games when the
   venue has fewer than n_games *)
predict_venue_games(rows, team_name, is_home, n) ==
    LET venue == IF is_home THEN TailN(HomeGamesOf(rows, team_name), n)
                 ELSE TailN(AwayGamesOf(rows, team_name), n)
    IN IF Len(venue) < n THEN TailN(AllGamesOf(rows, team_name), n) ELSE venue

predict_get_team_stats(rows, team_name, is_home, n) ==
    StatsOf(predict_venue_games(rows, team_name, is_home, n),
            rows, team_name, is_home, n)

----------------------------------------------------------------------------
(* glitch_engine.get_team_stats *)

(* if len(venue_games) < 3 *)
EngineFallbackBelow == 3

engine_venue_games(rows, team_name, is_home, n) ==
    LET venue == IF is_home THEN TailN(HomeGamesOf(rows, team_name), n)
                 ELSE TailN(AwayGamesOf(rows, team_name), n)
    IN IF Len(venue) < EngineFallbackBelow
       THEN TailN(AllGamesOf(rows, team_name), n) ELSE venue

(* d is the frame or None *)
engine_get_team_stats(d, team_name, is_home, n) ==
    IF ~d.ok THEN DefaultStats
    ELSE StatsOf(engine_venue_games(d.rows, team_name, is_home, n),
                 d.rows, team_name, is_home, n)

----------------------------------------------------------------------------
(* train_glitch.calculate_rolling_stats *)

NaN == <<0, 0>>
IsNaN(v) == v[2] = 0

FeatureNames ==
    <<"HomeTeam_Form", "AwayTeam_Form", "Home_Avg_Goals", "Away_Avg_Goals",
      "Home_Avg_Conceded", "Away_Avg_Conceded", "Home_BTTS_Rate", "Away_BTTS_Rate">>

(* defaultdict(list) for each of the seven tracking dictionaries *)
EmptyTrack ==
    [d \in {"team_results", "home_goals", "home_conceded", "away_goals",
            "away_conceded", "home_btts", "away_btts"} |->
        [t \in HistoryTeams |-> <<>>]]

(* "Calculate current stats BEFORE this match": the eight cells of one row *)
RowFeatures(tr, row, n) ==
    LET home_team == row.HomeTeam
        away_team == row.AwayTeam
        hasHome == Len(tr["home_goals"][home_team]) >= n
        hasAway == Len(tr["away_goals"][away_team]) >= n
    IN [HomeTeam_Form |->
            IF Len(tr["team_results"][home_team]) >= n
            THEN Frac(SumSeq(TailN(tr["team_results"][home_team], n)), 1) ELSE NaN,
        AwayTeam_Form |->
            IF Len(tr["team_results"][away_team]) >= n
            THEN Frac(SumSeq(TailN(tr["team_results"][away_team], n)), 1) ELSE NaN,
        Home_Avg_Goals |->
            IF hasHome THEN Mean(TailN(tr["home_goals"][home_team], n)) ELSE NaN,
        Home_Avg_Conceded |->
            IF hasHome THEN Mean(TailN(tr["home_conceded"][home_team], n)) ELSE NaN,
        Home_BTTS_Rate |->
            IF hasHome
            THEN Frac(SumSeq(TailN(tr["home_btts"][home_team], n)) * 100, n) ELSE NaN,
        Away_Avg_Goals |->
            IF hasAway THEN Mean(TailN(tr["away_goals"][away_team], n)) ELSE NaN,
        Away_Avg_Conceded |->
            IF hasAway THEN Mean(TailN(tr["away_conceded"][away_team], n)) ELSE NaN,
        Away_BTTS_Rate |->
            IF hasAway
            THEN Frac(SumSeq(TailN(tr["away_btts"][away_team], n)) * 100, n) ELSE NaN]

Push(d, team, v) == [d EXCEPT ![team] = Append(@, v)]

(* "NOW update tracking with this match's results" *)
UpdateTracking(tr, row) ==
    LET home_team == row.HomeTeam
        away_team == row.AwayTeam
        hp == IF row.FTR = "H" THEN 3 ELSE IF row.FTR = "D" THEN 1 ELSE 0
        ap == IF row.FTR = "H" THEN 0 ELSE IF row.FTR = "D" THEN 1 ELSE 3
        btts_occurred == IF row.FTHG > 0 /\ row.FTAG > 0 THEN 1 ELSE 0
    IN [team_results |-> Push(Push(tr["team_results"], home_team, hp), away_team, ap),
        home_goals |-> Push(tr["home_goals"], home_team, row.FTHG),
        home_conceded |-> Push(tr["home_conceded"], home_team, row.FTAG),
        away_goals |-> Push(tr["away_goals"], away_team, row.FTAG),
        away_conceded |-> Push(tr["away_conceded"], away_team, row.FTHG),
        home_btts |-> Push(tr["home_btts"], home_team, btts_occurred),
        away_btts |-> Push(tr["away_btts"], away_team, btts_occurred)]

(* mutant: the dictionaries are updated before the row's cells are computed *)
RollingIterationUpdateFirst(tr, row, n) ==
    [feats |-> RowFeatures(UpdateTracking(tr, row), row, n),
     track |-> UpdateTracking(tr, row)]

(* one iteration of "for idx, row in df.iterrows()" *)
RollingIteration(tr, row, n) ==
    [feats |-> RowFeatures(tr, row, n), track |-> UpdateTracking(tr, row)]

----------------------------------------------------------------------------
(* train_glitch: create_targets, prepare_data, train_single_model *)

(* a missing value in a target column (the FTR map has no entry) *)
NoTarget == -1

TargetCols == <<"Target_Win", "Target_Goals", "Target_BTTS">>

(* df['FTR'].map({'H': 0, 'D': 1, 'A': 2}) *)
TargetWin(ftr) ==
    IF ftr = "H" THEN 0 ELSE IF ftr = "D" THEN 1 ELSE IF ftr = "A" THEN 2 ELSE NoTarget

(* mutant: Target_BTTS marks the matches in which either side scored *)
create_targets_either_scored(rows) ==
    [i \in 1..Len(rows) |->
        [Target_Win |-> TargetWin(rows[i].FTR),
         Target_Goals |-> IF 2 * (rows[i].FTHG + rows[i].FTAG) > 5 THEN 1 ELSE 0,
         Target_BTTS |-> IF rows[i].FTHG > 0 \/ rows[i].FTAG > 0 THEN 1 ELSE 0]]

(* the three target columns, one record per row; > 2.5 is 2 * total > 5 *)
create_targets(rows) ==
    [i \in 1..Len(rows) |->
        [Target_Win |-> TargetWin(rows[i].FTR),
         Target_Goals |-> IF 2 * (rows[i].FTHG + rows[i].FTAG) > 5 THEN 1 ELSE 0,
         Target_BTTS |-> IF rows[i].FTHG > 0 /\ rows[i].FTAG > 0 THEN 1 ELSE 0]]

Indices(n) == [i \in 1..n |-> i]

(* df.dropna(subset=feature_cols + [target_col]): the index labels of the
   rows kept, in the frame's order *)
prepare_data(feats, tgts, feature_cols, target_col) ==
    SelectSeq(Indices(Len(feats)),
              LAMBDA i : /\ \A c \in 1..Len(feature_cols) : ~IsNaN(feats[i][feature_cols[c]])
                         /\ tgts[i][target_col] # NoTarget)

(* int(len(X) * (1 - test_size)) with test_size = 0.2; the float product
   truncates to floor(8 * len / 10) *)
SplitIdx(len) == (len * 8) \div 10

(* mutant: the test rows are cut from the front *)
train_test_split_test_first(X) ==
    LET k == Len(X) - SplitIdx(Len(X))
    IN [train |-> SubSeq(X, k + 1, Len(X)), test |-> SubSeq(X, 1, k)]

(* X.iloc[:split_idx], X.iloc[split_idx:] *)
train_test_split(X) ==
    LET split_idx == SplitIdx(Len(X))
    IN [train |-> SubSeq(X, 1, split_idx), test |-> SubSeq(X, split_idx + 1, Len(X))]

NoSplit == [target_col |-> "", clean |-> <<>>, train |-> <<>>, test |-> <<>>]

TrainIdle ==
    /\ targets = <<>>
    /\ split = NoSplit

----------------------------------------------------------------------------
(* Model artifacts and load_models *)

Markets == <<"win", "goals", "btts">>
MarketSet == {Markets[i] : i \in 1..Len(Markets)}

NoModels == [ok |-> FALSE, names |-> {}]
NoConfig == [ok |-> FALSE, features |-> <<>>]

(* json.load of features.json as train_glitch wrote it *)
FeaturesJson(files) == [ok |-> TRUE, features |-> files.features]

(* predict_glitch.load_models: locals only, all or nothing *)
predict_load_models(files) ==
    IF files.features_json /\ files.pkl = MarketSet
    THEN [models |-> [ok |-> TRUE, names |-> MarketSet], config |-> FeaturesJson(files)]
    ELSE [models |-> NoModels, config |-> NoConfig]

(* the models read by "for name in ['win', 'goals', 'btts']" before the
   first open() that fails *)
RECURSIVE LoadedBeforeFailure(_, _)
LoadedBeforeFailure(names, pkl) ==
    IF names = <<>> \/ Head(names) \notin pkl THEN {}
    ELSE {Head(names)} \cup LoadedBeforeFailure(Tail(names), pkl)

(* glitch_engine.load_models: what it returns (models, config) and what it
   leaves in the globals (mc, cc) *)
engine_load_models(files, mc, cc) ==
    IF mc.ok THEN [models |-> mc, config |-> cc, mc |-> mc, cc |-> cc]
    ELSE IF ~files.features_json
    THEN [models |-> NoModels, config |-> NoConfig, mc |-> mc, cc |-> cc]
    ELSE LET loaded == [ok |-> TRUE, names |-> LoadedBeforeFailure(Markets, files.pkl)] IN
         IF loaded.names = MarketSet
         THEN [models |-> loaded, config |-> FeaturesJson(files),
               mc |-> loaded, cc |-> FeaturesJson(files)]
         ELSE [models |-> NoModels, config |-> NoConfig,
               mc |-> loaded, cc |-> FeaturesJson(files)]

(* two callers inside glitch_engine.load_models; got is what the call
   returned, the models as they are in the returned dict at that moment *)
Callers == {1, 2}

NoGot == [models |-> NoModels, config |-> NoConfig]

NotCalling == [c \in Callers |-> [pc |-> "out", i |-> 1, got |-> NoGot]]

RaceIdle == callers = NotCalling

(* the artifact files, named by what they hold: features.json and the
   three model_<name>.pkl *)
ArtifactFiles == {"features"} \cup MarketSet

(* the files the body of load_models opens and reads before it returns or
   hits the first missing one (the same body in both modules) *)
FilesRead(files) ==
    IF ~files.features_json THEN {}
    ELSE {"features"} \cup LoadedBeforeFailure(Markets, files.pkl)

(* predict_glitch.load_models reads on every call *)
predict_files_read(files) == FilesRead(files)

(* glitch_engine.load_models reads unless _models_cache is set *)
engine_files_read(files, mc) == IF mc.ok THEN {} ELSE FilesRead(files)

NoReads == [f \in ArtifactFiles |-> 0]

LoadIdle == reads = NoReads

----------------------------------------------------------------------------
(* Percentages and the per-market breakdown *)

FLess(a, b) == a[1] * b[2] < b[1] * a[2]
FAdd(a, b) == Frac(a[1] * b[2] + b[1] * a[2], a[2] * b[2])
FSub(a, b) == Frac(a[1] * b[2] - b[1] * a[2], a[2] * b[2])
FHalf(a) == Frac(a[1], 2 * a[2])

RECURSIVE FSum(_)
FSum(s) == IF s = <<>> THEN <<0, 1>> ELSE FAdd(Head(s), FSum(Tail(s)))

(* max(proba): the first largest element *)
RECURSIVE IndexOfMax(_, _, _)
IndexOfMax(s, i, best) ==
    IF i > Len(s) THEN best
    ELSE IndexOfMax(s, i + 1, IF s[i] > s[best] THEN i ELSE best)

(* mutant: the first class is taken whatever the probabilities *)
ArgFirst(s) == 1

ArgMax(s) == IndexOfMax(s, 2, 1)

(* probability vectors of k classes in steps of 1/ProbGrain, summing to 1 *)
ProbaVectors(k) == {p \in [1..k -> 0..ProbGrain] : SumSeq(p) = ProbGrain}

ModelAnswers == [win : ProbaVectors(3), goals : ProbaVectors(2), btts : ProbaVectors(2)]

(* proba * 100 *)
Pct(p) == Frac(p * 100, ProbGrain)

NoMarket == [probs |-> <<>>, best |-> "", confidence |-> <<0, 1>>]
NoPredictions == [win |-> NoMarket, goals |-> NoMarket, btts |-> NoMarket]
NoPick == [market |-> "", bet |-> "", confidence |-> <<0, 1>>]

(* predictions['win']: probs is <<home, draw, away>> *)
WinMarket(proba) ==
    [probs |-> <<Pct(proba[1]), Pct(proba[2]), Pct(proba[3])>>,
     best |-> <<"Home Win", "Draw", "Away Win">>[ArgMax(proba)],
     confidence |-> Pct(proba[ArgMax(proba)])]

(* predictions['goals'] and ['btts']: probs is <<class 0, class 1>>, labels
   is <<label of class 0, label of class 1>> *)
BinaryMarket(proba, labels) ==
    [probs |-> <<Pct(proba[1]), Pct(proba[2])>>,
     best |-> IF proba[2] > proba[1] THEN labels[2] ELSE labels[1],
     confidence |-> Pct(proba[ArgMax(proba)])]

(* mutant: a later bet replaces the pick when it is at least as good *)
RECURSIVE MaxByConfidenceLastWins(_)
MaxByConfidenceLastWins(all_bets) ==
    IF Len(all_bets) = 1 THEN all_bets[1]
    ELSE LET rest == MaxByConfidenceLastWins(Tail(all_bets)) IN
         IF FLess(rest.confidence, Head(all_bets).confidence)
         THEN Head(all_bets) ELSE rest

(* mutant: min instead of max *)
RECURSIVE MinByConfidence(_)
MinByConfidence(all_bets) ==
    IF Len(all_bets) = 1 THEN all_bets[1]
    ELSE LET rest == MinByConfidence(Tail(all_bets)) IN
         IF FLess(rest.confidence, Head(all_bets).confidence)
         THEN rest ELSE Head(all_bets)

(* max(all_bets, key=lambda x: x[2]): the first bet of largest confidence *)
RECURSIVE MaxByConfidence(_)
MaxByConfidence(all_bets) ==
    IF Len(all_bets) = 1 THEN all_bets[1]
    ELSE LET rest == MaxByConfidence(Tail(all_bets)) IN
         IF FLess(Head(all_bets).confidence, rest.confidence)
         THEN rest ELSE Head(all_bets)

(* "Find the SAFEST GLITCH" *)
SafestGlitch(predictions, market_names) ==
    MaxByConfidence(
        [i \in 1..3 |->
            [market |-> market_names[i],
             bet |-> predictions[Markets[i]].best,
             confidence |-> predictions[Markets[i]].confidence]])

PredictMarketNames == <<"win", "goals", "btts">>
EngineMarketNames == <<"Match Result", "Goals", "BTTS">>

ModelPredictions(answers, btts_labels) ==
    [win |-> WinMarket(answers.win),
     goals |-> BinaryMarket(answers.goals, <<"Under 2.5", "Over 2.5">>),
     btts |-> BinaryMarket(answers.btts, btts_labels)]

----------------------------------------------------------------------------
(* Outcomes of a prediction call.  keys is the set of keys of the returned
   dict; a field whose key is absent holds a placeholder. *)

(* the answers of the injuries endpoint tried in a prediction call: a
   failed request, an unexpected exception, a list that weakens Arsenal
   below the threshold *)
GateResponses ==
    {[kind |-> "request_error", injuries |-> <<>>],
     [kind |-> "error", injuries |-> <<>>],
     [kind |-> "ok", injuries |-> <<"Saka", "Saka", "Smith">>]}

(* how the scout module behaves during one call: whether it can be
   imported, and what the two injuries requests come to *)
NoScout ==
    [importable |-> FALSE,
     home_response |-> [kind |-> "request_error", injuries |-> <<>>],
     away_response |-> [kind |-> "request_error", injuries |-> <<>>]]

(* skip_reason and the squad_news dict before any injuries are looked at *)
NoReason == [ok |-> FALSE, weak_team |-> "", min_score |-> 0]

NoNews ==
    [home |-> [score |-> 100, status |-> "UNKNOWN"],
     away |-> [score |-> 100, status |-> "UNKNOWN"],
     should_skip |-> FALSE, skip_reason |-> NoReason]

NoResult ==
    [api |-> "none", outcome |-> "none", keys |-> {}, home_team |-> "",
     away_team |-> "", predictions |-> NoPredictions, safest_glitch |-> NoPick,
     home_stats |-> DefaultStats, away_stats |-> DefaultStats,
     using_ml |-> FALSE, skipped |-> FALSE, detail |-> "",
     squad_news |-> NoNews, queried |-> {}, skip_reason |-> NoReason,
     check_squad |-> FALSE, scout |-> NoScout]

Raised(api, home_team, away_team, exception) ==
    [NoResult EXCEPT !.api = api, !.outcome = "raised", !.home_team = home_team,
                     !.away_team = away_team, !.detail = exception]

ErrorDict(api, home_team, away_team, message) ==
    [NoResult EXCEPT !.api = api, !.outcome = "returned", !.keys = {"error"},
                     !.home_team = home_team, !.away_team = away_team,
                     !.detail = message]

PredIdle ==
    /\ fs = [features_json |-> FALSE, pkl |-> {}, master_data |-> FALSE,
             features |-> FeatureNames]
    /\ model_out = [win |-> <<0, 0, 0>>, goals |-> <<0, 0>>, btts |-> <<0, 0>>]
    /\ models_cache = NoModels
    /\ config_cache = NoConfig
    /\ data_cache = None
    /\ result = NoResult

----------------------------------------------------------------------------
(* glitch_engine.predict_match_heuristic *)

(* the stats used when load_historical_data returned None *)
HeuristicHomeDefaults ==
    [form |-> 7, avg_goals |-> Frac(13, 10), avg_conceded |-> Frac(12, 10),
     btts_rate |-> Frac(50, 1)]
HeuristicAwayDefaults ==
    [form |-> 7, avg_goals |-> Frac(11, 10), avg_conceded |-> Frac(14, 10),
     btts_rate |-> Frac(50, 1)]

HeuristicPredictions(home_stats, away_stats) ==
    LET sum == home_stats.form + away_stats.form
        total_form == IF sum = 0 THEN 1 ELSE sum
        home_strength == Frac(home_stats.form, total_form)
        away_strength == Frac(away_stats.form, total_form)
        btts_avg == FHalf(FAdd(home_stats.btts_rate, away_stats.btts_rate))
    IN [win |->
            [probs |-> <<Frac(home_stats.form * 110, total_form), <<25, 1>>,
                         Frac(away_stats.form * 90, total_form)>>,
             best |-> IF FLess(away_strength, home_strength)
                      THEN "Home Win" ELSE "Away Win",
             confidence |->
                Frac((IF FLess(home_strength, away_strength)
                      THEN away_stats.form ELSE home_stats.form) * 100, total_form)],
        goals |->
            [probs |-> <<(<<50, 1>>), (<<50, 1>>)>>,
             best |-> IF FLess(<<5, 2>>, FAdd(home_stats.avg_goals, away_stats.avg_goals))
                      THEN "Over 2.5" ELSE "Under 2.5",
             confidence |-> <<52, 1>>],
        btts |->
            [probs |-> <<FSub(<<100, 1>>, btts_avg), btts_avg>>,
             best |-> IF FLess(<<50, 1>>, home_stats.btts_rate)
                      THEN "BTTS Yes" ELSE "BTTS No",
             confidence |-> <<55, 1>>]]

(* mutant: the result dicts carry no 'match' entry *)
EngineResultKeysNoMatch ==
    {"home_team", "away_team", "predictions", "safest_glitch",
     "home_stats", "away_stats", "using_ml"}

(* the keys of the dict predict_match_ml and predict_match_heuristic return *)
EngineResultKeys ==
    {"match", "home_team", "away_team", "predictions", "safest_glitch",
     "home_stats", "away_stats", "using_ml"}

(* d is the frame load_historical_data returned, or None *)
predict_match_heuristic(d, home_team, away_team) ==
    LET home_stats == IF d.ok THEN engine_get_team_stats(d, home_team, TRUE, DefaultNGames)
                      ELSE HeuristicHomeDefaults
        away_stats == IF d.ok THEN engine_get_team_stats(d, away_team, FALSE, DefaultNGames)
                      ELSE HeuristicAwayDefaults
        predictions == HeuristicPredictions(home_stats, away_stats)
    IN [api |-> "predict_match_ml", outcome |-> "returned", keys |-> EngineResultKeys,
        home_team |-> home_team, away_team |-> away_team,
        predictions |-> predictions,
        safest_glitch |-> [market |-> "Match Result", bet |-> predictions.win.best,
                           confidence |-> predictions.win.confidence],
        home_stats |-> home_stats, away_stats |-> away_stats,
        using_ml |-> FALSE, skipped |-> FALSE, detail |-> "heuristic",
        squad_news |-> NoNews, queried |-> {}, skip_reason |-> NoReason,
        check_squad |-> FALSE, scout |-> NoScout]

----------------------------------------------------------------------------
(* glitch_engine.predict_match_ml, after load_models and
   load_historical_data: models and config are what load_models returned *)

BuiltFeatureNames == {FeatureNames[i] : i \in 1..Len(FeatureNames)}

(* pd.DataFrame([features])[feature_cols] raises KeyError on an unknown name *)
SchemaKnown(feature_cols) ==
    \A i \in 1..Len(feature_cols) : feature_cols[i] \in BuiltFeatureNames

(* the features dict built from the two stats objects; form points are
   written as rationals like the other cells *)
FeatureDict(home_stats, away_stats) ==
    [HomeTeam_Form |-> <<home_stats.form, 1>>,
     AwayTeam_Form |-> <<away_stats.form, 1>>,
     Home_Avg_Goals |-> home_stats.avg_goals,
     Away_Avg_Goals |-> away_stats.avg_goals,
     Home_Avg_Conceded |-> home_stats.avg_conceded,
     Away_Avg_Conceded |-> away_stats.avg_conceded,
     Home_BTTS_Rate |-> home_stats.btts_rate,
     Away_BTTS_Rate |-> away_stats.btts_rate]

(* a one-row frame, or the KeyError of selecting a missing column *)
NoFrame == [ok |-> FALSE, columns |-> <<>>, values |-> <<>>]

(* mutant: columns the dict does not have are left out of the frame *)
SelectColumnsKnownOnly(features, feature_cols) ==
    LET known == SelectSeq(feature_cols, LAMBDA c : c \in BuiltFeatureNames)
    IN [ok |-> TRUE, columns |-> known,
        values |-> [i \in 1..Len(known) |-> features[known[i]]]]

(* pd.DataFrame([features])[feature_cols] *)
SelectColumns(features, feature_cols) ==
    IF ~SchemaKnown(feature_cols) THEN NoFrame
    ELSE [ok |-> TRUE, columns |-> feature_cols,
          values |-> [i \in 1..Len(feature_cols) |-> features[feature_cols[i]]]]

(* mutant: the row keeps the order in which the dict was built *)
prepare_features_built_order(home_stats, away_stats, feature_cols) ==
    IF ~SchemaKnown(feature_cols) THEN NoFrame
    ELSE [ok |-> TRUE, columns |-> feature_cols,
          values |-> [i \in 1..Len(feature_cols) |->
                        FeatureDict(home_stats, away_stats)[
                            FeatureNames[IF i <= Len(FeatureNames) THEN i ELSE 1]]]]

(* predict_glitch.prepare_features *)
prepare_features(home_stats, away_stats, feature_cols) ==
    SelectColumns(FeatureDict(home_stats, away_stats), feature_cols)

(* glitch_engine.predict_match_ml, "Prepare features for the model" *)
engine_features(home_stats, away_stats, feature_cols) ==
    SelectColumns(
        [HomeTeam_Form |-> <<home_stats.form, 1>>,
         AwayTeam_Form |-> <<away_stats.form, 1>>,
         Home_Avg_Goals |-> home_stats.avg_goals,
         Away_Avg_Goals |-> away_stats.avg_goals,
         Home_Avg_Conceded |-> home_stats.avg_conceded,
         Away_Avg_Conceded |-> away_stats.avg_conceded,
         Home_BTTS_Rate |-> home_stats.btts_rate,
         Away_BTTS_Rate |-> away_stats.btts_rate],
        feature_cols)

NoFeatIn ==
    [home_stats |-> DefaultStats, away_stats |-> DefaultStats, feature_cols |-> <<>>]

NoFeatOut == [fn |-> "none", frame |-> NoFrame]

FeatIdle ==
    /\ feat_in = NoFeatIn
    /\ feat_out = NoFeatOut

predict_match_ml(models, config, d, answers, home_team, away_team) ==
    IF ~models.ok THEN predict_match_heuristic(d, home_team, away_team)
    ELSE LET home_stats == engine_get_team_stats(d, home_team, TRUE, DefaultNGames)
             away_stats == engine_get_team_stats(d, away_team, FALSE, DefaultNGames)
             predictions == ModelPredictions(answers, <<"BTTS No", "BTTS Yes">>)
             X == engine_features(home_stats, away_stats, config.features)
         IN IF ~X.ok
            THEN Raised("predict_match_ml", home_team, away_team, "KeyError")
            ELSE IF models.names # MarketSet
            THEN Raised("predict_match_ml", home_team, away_team, "KeyError")
            ELSE [api |-> "predict_match_ml", outcome |-> "returned",
                  keys |-> EngineResultKeys,
                  home_team |-> home_team, away_team |-> away_team,
                  predictions |-> predictions,
                  safest_glitch |-> SafestGlitch(predictions, EngineMarketNames),
                  home_stats |-> home_stats, away_stats |-> away_stats,
                  using_ml |-> TRUE, skipped |-> FALSE, detail |-> "ml",
                  squad_news |-> NoNews, queried |-> MarketSet,
                  skip_reason |-> NoReason, check_squad |-> FALSE,
                  scout |-> NoScout]

(* glitch_engine.load_historical_data: the cached frame, else the file *)
engine_load_historical_data(files, file_rows, dc) ==
    IF dc.ok THEN dc
    ELSE IF files.master_data THEN Some(SortByDate(file_rows)) ELSE None

----------------------------------------------------------------------------
(* glitch_engine.get_available_teams *)

(* the club names of the team listings, in Python's str order *)
ClubsAscending == <<"Arsenal", "Chelsea", "Liverpool">>
Clubs == {ClubsAscending[i] : i \in 1..Len(ClubsAscending)}

StrRank(t) == CHOOSE i \in 1..Len(ClubsAscending) : ClubsAscending[i] = t

(* a < b on str *)
StrLess(a, b) == StrRank(a) < StrRank(b)

(* mutant: the set is listed largest first *)
RECURSIVE SortedDescending(_)
SortedDescending(S) ==
    IF S = {} THEN <<>>
    ELSE LET hi == CHOOSE t \in S : \A u \in S : ~StrLess(t, u)
         IN <<hi>> \o SortedDescending(S \ {hi})

(* sorted(teams) over a set of distinct strings: smallest first *)
RECURSIVE Sorted(_)
Sorted(S) ==
    IF S = {} THEN <<>>
    ELSE LET lo == CHOOSE t \in S : \A u \in S : ~StrLess(u, t)
         IN <<lo>> \o Sorted(S \ {lo})

(* d is what load_historical_data returned *)
get_available_teams(d) ==
    IF ~d.ok THEN <<>> ELSE Sorted(TeamsIn(d.rows))

NoTeams == [fn |-> "none", teams |-> <<>>]

TeamsIdle == teams_out = NoTeams

----------------------------------------------------------------------------
(* scout: squad intelligence *)

(* bound: longest injury list the injuries endpoint answers with *)
MaxInjuries == 3

(* bound: opens of one artifact file that are counted *)
MaxReads == 2

NoTeamId == 0

(* scout.get_team_id over the teams of the model; None is falsy like 0 *)
get_team_id(team_name) ==
    IF team_name = "Arsenal" THEN 42
    ELSE IF team_name = "Chelsea" THEN 49
    ELSE NoTeamId

TeamIds == {get_team_id(t) : t \in QueryTeams}

Players == {"Saka", "Palmer", "Smith"}

(* key_players_db.get(team_id, []), restricted to Players *)
key_players_db(team_id) ==
    IF team_id = 42 THEN {"Saka"}
    ELSE IF team_id = 49 THEN {"Palmer"}
    ELSE {}

InjuryLists == UNION {[1..k -> Players] : k \in 0..MaxInjuries}

(* what the injuries request of one team comes to: a JSON answer, a
   requests.RequestException, or any other exception *)
ApiResponses ==
    {[kind |-> "ok", injuries |-> l] : l \in InjuryLists}
    \cup {[kind |-> "request_error", injuries |-> <<>>],
          [kind |-> "error", injuries |-> <<>>]}

get_injuries(response) ==
    IF response.kind = "ok" THEN response.injuries ELSE <<>>

RECURSIVE Deductions(_, _)
Deductions(team_id, injuries) ==
    IF injuries = <<>> THEN 0
    ELSE (IF Head(injuries) \in key_players_db(team_id) THEN 15 ELSE 3)
         + Deductions(team_id, Tail(injuries))

calculate_squad_strength(team_id, injuries) ==
    LET raw == 100 - Deductions(team_id, injuries)
        score == IF raw < 0 THEN 0 ELSE raw
    IN [score |-> score,
        injuries_count |-> Len(injuries),
        status |-> IF score >= 85 THEN "STRONG"
                   ELSE IF score >= 70 THEN "MODERATE" ELSE "WEAK"]

(* mutant: a squad at exactly the threshold is skipped too *)
SkipDecisionAtOrBelow(home_score, away_score) ==
    LET min_score == IF away_score < home_score THEN away_score ELSE home_score IN
    IF min_score <= 70
    THEN [should_skip |-> TRUE,
          skip_reason |-> [ok |-> TRUE,
                           weak_team |-> IF home_score < away_score
                                         THEN "Home" ELSE "Away",
                           min_score |-> min_score]]
    ELSE [should_skip |-> FALSE, skip_reason |-> NoReason]

(* "Determine if match should be skipped" *)
SkipDecision(home_score, away_score) ==
    LET min_score == IF away_score < home_score THEN away_score ELSE home_score IN
    IF min_score < 70
    THEN [should_skip |-> TRUE,
          skip_reason |-> [ok |-> TRUE,
                           weak_team |-> IF home_score < away_score
                                         THEN "Home" ELSE "Away",
                           min_score |-> min_score]]
    ELSE [should_skip |-> FALSE, skip_reason |-> NoReason]

(* scout.get_team_news without a fixture_id: raised is TRUE when an
   injuries request ends in an exception get_injuries does not catch *)
get_team_news(home_team_id, away_team_id, home_response, away_response) ==
    LET home_asked == home_team_id # NoTeamId
        away_asked == away_team_id # NoTeamId
        home_strength ==
            calculate_squad_strength(home_team_id, get_injuries(home_response))
        away_strength ==
            calculate_squad_strength(away_team_id, get_injuries(away_response))
        home == IF home_asked
                THEN [score |-> home_strength.score, status |-> home_strength.status]
                ELSE NoNews.home
        away == IF away_asked
                THEN [score |-> away_strength.score, status |-> away_strength.status]
                ELSE NoNews.away
        decision == SkipDecision(home.score, away.score)
    IN IF (home_asked /\ home_response.kind = "error")
          \/ (away_asked /\ away_response.kind = "error")
       THEN [raised |-> TRUE, news |-> NoNews]
       ELSE [raised |-> FALSE,
             news |-> [home |-> home, away |-> away,
                       should_skip |-> decision.should_skip,
                       skip_reason |-> decision.skip_reason]]

NoGateIn ==
    [home_team_id |-> NoTeamId, away_team_id |-> NoTeamId,
     home_response |-> [kind |-> "request_error", injuries |-> <<>>],
     away_response |-> [kind |-> "request_error", injuries |-> <<>>]]

NoGateOut == [done |-> FALSE, raised |-> FALSE, news |-> NoNews]

ScoutIdle ==
    /\ gate_in = NoGateIn
    /\ gate_out = NoGateOut

----------------------------------------------------------------------------
(* predict_glitch.predict_all_markets *)

ScoutBehaviours ==
    {NoScout}
    \cup [importable : {TRUE}, home_response : GateResponses,
          away_response : GateResponses]

(* mutant: an exception of get_team_news skips the match *)
squad_check_blocking(home_team, away_team, check_squad, scout) ==
    LET home_id == get_team_id(home_team)
        away_id == get_team_id(away_team)
        r == get_team_news(home_id, away_id, scout.home_response,
                           scout.away_response)
    IN IF ~check_squad THEN [status |-> "unchecked", news |-> NoNews]
       ELSE IF ~scout.importable THEN [status |-> "unavailable", news |-> NoNews]
       ELSE IF home_id = NoTeamId /\ away_id = NoTeamId
       THEN [status |-> "no_ids", news |-> NoNews]
       ELSE IF r.raised
       THEN [status |-> "returned",
             news |-> [NoNews EXCEPT !.should_skip = TRUE,
                                     !.skip_reason = [ok |-> TRUE, weak_team |-> "Away",
                                                      min_score |-> 0]]]
       ELSE [status |-> "returned", news |-> r.news]

(* the "Check squad intelligence" block: squad_news is set only when
   get_team_news returned *)
squad_check(home_team, away_team, check_squad, scout) ==
    LET home_id == get_team_id(home_team)
        away_id == get_team_id(away_team)
        r == get_team_news(home_id, away_id, scout.home_response,
                           scout.away_response)
    IN IF ~check_squad THEN [status |-> "unchecked", news |-> NoNews]
       ELSE IF ~scout.importable THEN [status |-> "unavailable", news |-> NoNews]
       ELSE IF home_id = NoTeamId /\ away_id = NoTeamId
       THEN [status |-> "no_ids", news |-> NoNews]
       ELSE IF r.raised THEN [status |-> "raised", news |-> NoNews]
       ELSE [status |-> "returned", news |-> r.news]

(* mutant: the gate's answer is never acted on *)
GateSkipsNever(squad) == FALSE

(* "Check if match should be skipped" *)
GateSkips(squad) == squad.status = "returned" /\ squad.news.should_skip

PredictResultKeys ==
    {"home_team", "away_team", "predictions", "safest_glitch", "home_stats",
     "away_stats", "skipped", "model_accuracies"}

predict_all_markets(files, file_rows, answers, home_team, away_team, check_squad, scout) ==
    LET lm == predict_load_models(files) IN
    IF ~lm.models.ok
    THEN ErrorDict("predict_all_markets", home_team, away_team,
                   "Models not loaded. Run train_glitch.py first.")
    ELSE IF ~files.master_data
    THEN ErrorDict("predict_all_markets", home_team, away_team,
                   "Historical data not found.")
    ELSE LET rows == SortByDate(file_rows)
             home_stats == predict_get_team_stats(rows, home_team, TRUE, DefaultNGames)
             away_stats == predict_get_team_stats(rows, away_team, FALSE, DefaultNGames)
             predictions == ModelPredictions(answers, <<"No BTTS", "BTTS">>)
             squad == squad_check(home_team, away_team, check_squad, scout)
         IN IF GateSkips(squad)
            THEN [NoResult EXCEPT
                    !.api = "predict_all_markets", !.outcome = "returned",
                    !.keys = {"home_team", "away_team", "skipped", "skip_reason",
                              "squad_news", "home_stats", "away_stats"},
                    !.home_team = home_team, !.away_team = away_team,
                    !.home_stats = home_stats, !.away_stats = away_stats,
                    !.skipped = TRUE, !.detail = "skip_reason",
                    !.squad_news = squad.news,
                    !.skip_reason = squad.news.skip_reason,
                    !.check_squad = check_squad, !.scout = scout]
            ELSE IF ~prepare_features(home_stats, away_stats, lm.config.features).ok
            THEN [Raised("predict_all_markets", home_team, away_team, "KeyError")
                    EXCEPT !.check_squad = check_squad, !.scout = scout]
            ELSE [api |-> "predict_all_markets", outcome |-> "returned",
                  keys |-> PredictResultKeys
                           \cup (IF squad.status = "returned"
                                 THEN {"squad_news"} ELSE {}),
                  home_team |-> home_team, away_team |-> away_team,
                  predictions |-> predictions,
                  safest_glitch |-> SafestGlitch(predictions, PredictMarketNames),
                  home_stats |-> home_stats, away_stats |-> away_stats,
                  using_ml |-> FALSE, skipped |-> FALSE, detail |-> "ml",
                  squad_news |-> squad.news, queried |-> MarketSet,
                  skip_reason |-> NoReason, check_squad |-> check_squad,
                  scout |-> scout]

(* predict_glitch.main with two arguments: validate, predict, print *)
predict_main(files, file_rows, answers, home_team, away_team, scout) ==
    IF ~files.master_data
    THEN Raised("main", home_team, away_team, "TypeError")
    ELSE IF home_team \notin TeamsIn(SortByDate(file_rows))
            \/ away_team \notin TeamsIn(SortByDate(file_rows))
    THEN [NoResult EXCEPT !.api = "main", !.outcome = "rejected",
                          !.home_team = home_team, !.away_team = away_team,
                          !.detail = "team not found"]
    ELSE LET r == predict_all_markets(files, file_rows, answers, home_team,
                                      away_team, TRUE, scout)
         IN IF r.outcome = "raised" THEN [r EXCEPT !.api = "main"]
            ELSE IF ~({"home_team", "away_team", "predictions", "safest_glitch",
                       "home_stats", "away_stats"} \subseteq r.keys)
            THEN Raised("main", home_team, away_team, "KeyError")
            ELSE [r EXCEPT !.api = "main", !.outcome = "printed"]

----------------------------------------------------------------------------
(* Specification SpecStats: one process that loads the history and queries
   get_team_stats, or runs calculate_rolling_stats over the file's rows *)

NoRet == [fn |-> "none", team |-> "", is_home |-> FALSE, stats |-> DefaultStats]

PairIdle ==
    /\ csv_b = <<>>
    /\ df_b = None
    /\ track_b = EmptyTrack
    /\ rows_out_b = <<>>

InitStats ==
    /\ RaceIdle
    /\ TrainIdle
    /\ TeamsIdle
    /\ LoadIdle
    /\ FeatIdle
    /\ ScoutIdle
    /\ csv \in RawInputs
    /\ n_games \in NGames
    /\ df = None
    /\ pc = "start"
    /\ ret = NoRet
    /\ track = EmptyTrack
    /\ rows_out = <<>>
    /\ PairIdle
    /\ PredIdle

(* load_historical_data: read, sort by Date, reset the index *)
LoadHistoricalData ==
    /\ pc = "start"
    /\ df' = Some(SortByDate(csv))
    /\ pc' = "loaded"
    /\ UNCHANGED <<csv, n_games, ret, track, rows_out, pairVars, predVars,
                   scoutVars, featVars, loadVars, teamsVars, trainVars, raceVars>>

EngineGetTeamStats ==
    /\ pc = "loaded"
    /\ \E team_name \in QueryTeams, is_home \in BOOLEAN :
        ret' = [fn |-> "engine", team |-> team_name, is_home |-> is_home,
                stats |-> engine_get_team_stats(df, team_name, is_home, n_games)]
    /\ pc' = "returned"
    /\ UNCHANGED <<csv, n_games, df, track, rows_out, pairVars, predVars,
                   scoutVars, featVars, loadVars, teamsVars, trainVars, raceVars>>

PredictGetTeamStats ==
    /\ pc = "loaded"
    /\ \E team_name \in QueryTeams, is_home \in BOOLEAN :
        ret' = [fn |-> "predict", team |-> team_name, is_home |-> is_home,
                stats |-> predict_get_team_stats(df.rows, team_name, is_home, n_games)]
    /\ pc' = "returned"
    /\ UNCHANGED <<csv, n_games, df, track, rows_out, pairVars, predVars,
                   scoutVars, featVars, loadVars, teamsVars, trainVars, raceVars>>

(* calculate_rolling_stats up to the loop: copy, sort, empty dictionaries *)
RollingStart ==
    /\ pc = "start"
    /\ df' = Some(SortByDate(csv))
    /\ track' = EmptyTrack
    /\ rows_out' = <<>>
    /\ pc' = "rolling"
    /\ UNCHANGED <<csv, n_games, ret, pairVars, predVars, scoutVars,
                   featVars, loadVars, teamsVars, trainVars, raceVars>>

RollingRow ==
    /\ pc = "rolling"
    /\ Len(rows_out) < Len(df.rows)
    /\ LET it == RollingIteration(track, df.rows[Len(rows_out) + 1], n_games) IN
        /\ rows_out' = Append(rows_out, it.feats)
        /\ track' = it.track
    /\ UNCHANGED <<csv, n_games, df, pc, ret, pairVars, predVars, scoutVars,
                   featVars, loadVars, teamsVars, trainVars, raceVars>>

RollingReturn ==
    /\ pc = "rolling"
    /\ Len(rows_out) = Len(df.rows)
    /\ pc' = "trained"
    /\ UNCHANGED <<statsVars, pairVars, predVars, scoutVars, featVars,
                   loadVars, teamsVars, trainVars, raceVars>>

NextStats ==
    \/ LoadHistoricalData
    \/ EngineGetTeamStats
    \/ PredictGetTeamStats
    \/ RollingStart
    \/ RollingRow
    \/ RollingReturn

SpecStats == InitStats /\ [][NextStats]_vars

----------------------------------------------------------------------------
(* Specification SpecPair: calculate_rolling_stats run over two date-sorted
   histories of the same length that share their first match and may differ
   in their last two *)

PairScorelines == {<<1, 0>>, <<0, 1>>, <<1, 1>>}

InitPair ==
    /\ RaceIdle
    /\ TrainIdle
    /\ TeamsIdle
    /\ LoadIdle
    /\ FeatIdle
    /\ ScoutIdle
    /\ csv \in UNION {HistoriesOver(k, PairScorelines) : k \in 2..MaxLen}
    /\ LET shared == IF Len(csv) = 2 THEN 1 ELSE Len(csv) - 2 IN
        csv_b \in {SubSeq(csv, 1, shared) \o t :
                    t \in RowsOn(Len(csv) - shared, PairScorelines, shared + 1)}
    /\ n_games \in 1..MaxN
    /\ df = None
    /\ df_b = None
    /\ pc = "start"
    /\ ret = NoRet
    /\ track = EmptyTrack
    /\ track_b = EmptyTrack
    /\ rows_out = <<>>
    /\ rows_out_b = <<>>
    /\ PredIdle

PairStart ==
    /\ pc = "start"
    /\ df' = Some(SortByDate(csv))
    /\ df_b' = Some(SortByDate(csv_b))
    /\ track' = EmptyTrack
    /\ track_b' = EmptyTrack
    /\ rows_out' = <<>>
    /\ rows_out_b' = <<>>
    /\ pc' = "rolling"
    /\ UNCHANGED <<csv, csv_b, n_games, ret, predVars, scoutVars, featVars,
                   loadVars, teamsVars, trainVars, raceVars>>

(* both runs take their next row *)
PairRow ==
    /\ pc = "rolling"
    /\ Len(rows_out) < Len(df.rows)
    /\ LET idx == Len(rows_out) + 1
           it == RollingIteration(track, df.rows[idx], n_games)
           it_b == RollingIteration(track_b, df_b.rows[idx], n_games)
       IN /\ rows_out' = Append(rows_out, it.feats)
          /\ track' = it.track
          /\ rows_out_b' = Append(rows_out_b, it_b.feats)
          /\ track_b' = it_b.track
    /\ UNCHANGED <<csv, csv_b, n_games, df, df_b, pc, ret, predVars,
                   scoutVars, featVars, loadVars, teamsVars, trainVars, raceVars>>

PairReturn ==
    /\ pc = "rolling"
    /\ Len(rows_out) = Len(df.rows)
    /\ pc' = "trained"
    /\ UNCHANGED <<statsVars, pairVars, predVars, scoutVars, featVars,
                   loadVars, teamsVars, trainVars, raceVars>>

NextPair ==
    \/ PairStart
    \/ PairRow
    \/ PairReturn

SpecPair == InitPair /\ [][NextPair]_vars

----------------------------------------------------------------------------
(* Specification SpecScout: one get_team_news call for two team ids, over
   every answer of the injuries endpoint up to MaxInjuries players *)

(* a team without an id is not asked about *)
ResponsesFor(team_id) ==
    IF team_id = NoTeamId THEN {NoGateIn.home_response} ELSE ApiResponses

InitScout ==
    /\ RaceIdle
    /\ TrainIdle
    /\ TeamsIdle
    /\ LoadIdle
    /\ FeatIdle
    /\ \E h \in TeamIds, a \in TeamIds :
        \E hr \in ResponsesFor(h), ar \in ResponsesFor(a) :
            gate_in = [home_team_id |-> h, away_team_id |-> a,
                       home_response |-> hr, away_response |-> ar]
    /\ gate_out = NoGateOut
    /\ pc = "start"
    /\ csv = <<>>
    /\ n_games = DefaultNGames
    /\ df = None
    /\ ret = NoRet
    /\ track = EmptyTrack
    /\ rows_out = <<>>
    /\ PairIdle
    /\ PredIdle

GetTeamNews ==
    /\ pc = "start"
    /\ LET r == get_team_news(gate_in.home_team_id, gate_in.away_team_id,
                              gate_in.home_response, gate_in.away_response)
       IN gate_out' = [done |-> TRUE, raised |-> r.raised, news |-> r.news]
    /\ pc' = "returned"
    /\ UNCHANGED <<statsVars, pairVars, predVars, gate_in, featVars, loadVars, teamsVars, trainVars, raceVars>>

NextScout == GetTeamNews

SpecScout == InitScout /\ [][NextScout]_vars

----------------------------------------------------------------------------
(* Specification SpecFeatures: feature construction in both modules, over
   every ordering of the eight feature names in the schema and over schemas
   that name a field the stats objects do not have *)

RECURSIVE OrderingsOf(_)
OrderingsOf(S) ==
    IF S = {} THEN {<<>>}
    ELSE UNION {{<<x>> \o p : p \in OrderingsOf(S \ {x})} : x \in S}

(* features.json of a model bank trained on a column inference never builds *)
SkewedSchemas ==
    {[FeatureNames EXCEPT ![i] = "Home_xG"] : i \in 1..Len(FeatureNames)}

(* stats objects whose eight values are pairwise different *)
StatsSamples ==
    LET a == [form |-> 10, avg_goals |-> <<2, 1>>, avg_conceded |-> <<1, 2>>,
              btts_rate |-> <<60, 1>>]
        b == [form |-> 4, avg_goals |-> <<1, 1>>, avg_conceded |-> <<3, 2>>,
              btts_rate |-> <<40, 1>>]
    IN {<<a, b>>, <<b, a>>}

InitFeatures ==
    /\ RaceIdle
    /\ TrainIdle
    /\ TeamsIdle
    /\ LoadIdle
    /\ \E s \in StatsSamples, cols \in OrderingsOf(BuiltFeatureNames) \cup SkewedSchemas :
        feat_in = [home_stats |-> s[1], away_stats |-> s[2], feature_cols |-> cols]
    /\ feat_out = NoFeatOut
    /\ pc = "start"
    /\ csv = <<>>
    /\ n_games = DefaultNGames
    /\ df = None
    /\ ret = NoRet
    /\ track = EmptyTrack
    /\ rows_out = <<>>
    /\ PairIdle
    /\ PredIdle
    /\ ScoutIdle

PrepareFeatures ==
    /\ pc = "start"
    /\ feat_out' = [fn |-> "prepare_features",
                    frame |-> prepare_features(feat_in.home_stats, feat_in.away_stats,
                                               feat_in.feature_cols)]
    /\ pc' = "returned"
    /\ UNCHANGED <<statsVars, pairVars, predVars, scoutVars, feat_in, loadVars, teamsVars, trainVars, raceVars>>

EngineFeatures ==
    /\ pc = "start"
    /\ feat_out' = [fn |-> "predict_match_ml",
                    frame |-> engine_features(feat_in.home_stats, feat_in.away_stats,
                                              feat_in.feature_cols)]
    /\ pc' = "returned"
    /\ UNCHANGED <<statsVars, pairVars, predVars, scoutVars, feat_in, loadVars, teamsVars, trainVars, raceVars>>

NextFeatures ==
    \/ PrepareFeatures
    \/ EngineFeatures

SpecFeatures == InitFeatures /\ [][NextFeatures]_vars

----------------------------------------------------------------------------
(* Specification Spec: one process serving prediction calls through
   predict_glitch.predict_all_markets, predict_glitch.main and
   glitch_engine.predict_match_ml, over a fixed set of files *)

(* master_data.csv holds no match or one match *)
PredictHistories == {<<>>} \cup HistoriesOver(1, PairScorelines)

(* the feature list in features.json: the one train_glitch writes, or one
   naming a column the predictors do not build *)
PredictSchemas == {FeatureNames, [FeatureNames EXCEPT ![1] = "Home_xG"]}

(* the files beside the scripts; features is what features.json lists *)
FileSets ==
    {f \in [features_json : BOOLEAN, pkl : SUBSET MarketSet, master_data : BOOLEAN,
            features : PredictSchemas] :
        f.features_json \/ f.features = FeatureNames}

TeamPairs == {p \in QueryTeams \X QueryTeams : p[1] # p[2]}

Init ==
    /\ RaceIdle
    /\ TrainIdle
    /\ TeamsIdle
    /\ LoadIdle
    /\ FeatIdle
    /\ ScoutIdle
    /\ fs \in FileSets
    /\ csv \in (IF fs.master_data THEN PredictHistories ELSE {<<>>})
    /\ model_out \in (IF fs.features_json /\ fs.pkl = MarketSet
                         /\ SchemaKnown(fs.features)
                      THEN ModelAnswers
                      ELSE {[win |-> <<0, 0, 0>>, goals |-> <<0, 0>>, btts |-> <<0, 0>>]})
    /\ models_cache = NoModels
    /\ config_cache = NoConfig
    /\ data_cache = None
    /\ result = NoResult
    /\ pc = "idle"
    /\ n_games = DefaultNGames
    /\ df = None
    /\ ret = NoRet
    /\ track = EmptyTrack
    /\ rows_out = <<>>
    /\ PairIdle

PredictAllMarkets ==
    /\ pc = "idle"
    /\ \E p \in TeamPairs, check_squad \in BOOLEAN, scout \in ScoutBehaviours :
        /\ check_squad \/ scout = NoScout
        /\ result' = predict_all_markets(fs, csv, model_out, p[1], p[2],
                                         check_squad, scout)
    /\ pc' = "responded"
    /\ UNCHANGED <<statsVars, pairVars, fs, model_out, models_cache,
                   config_cache,
                   data_cache, scoutVars, featVars, loadVars, teamsVars, trainVars, raceVars>>

PredictMain ==
    /\ pc = "idle"
    /\ \E p \in TeamPairs, scout \in ScoutBehaviours :
        result' = predict_main(fs, csv, model_out, p[1], p[2], scout)
    /\ pc' = "responded"
    /\ UNCHANGED <<statsVars, pairVars, fs, model_out, models_cache,
                   config_cache,
                   data_cache, scoutVars, featVars, loadVars, teamsVars, trainVars, raceVars>>

(* glitch_engine.predict_match_ml: load_models, load_historical_data, predict *)
PredictMatchMl ==
    /\ pc = "idle"
    /\ \E p \in TeamPairs :
        LET lm == engine_load_models(fs, models_cache, config_cache)
            d == engine_load_historical_data(fs, csv, data_cache)
        IN /\ models_cache' = lm.mc
           /\ config_cache' = lm.cc
           /\ data_cache' = d
           /\ result' = predict_match_ml(lm.models, lm.config, d, model_out, p[1], p[2])
    /\ pc' = "responded"
    /\ UNCHANGED <<statsVars, pairVars, fs, model_out, scoutVars, featVars,
                   loadVars, teamsVars, trainVars, raceVars>>

(* the caller is done with the outcome; the process waits for the next call *)
CallerDone ==
    /\ pc = "responded"
    /\ pc' = "idle"
    /\ result' = NoResult
    /\ UNCHANGED <<statsVars, pairVars, fs, model_out, models_cache,
                   config_cache,
                   data_cache, scoutVars, featVars, loadVars, teamsVars, trainVars, raceVars>>

Next ==
    \/ PredictAllMarkets
    \/ PredictMain
    \/ PredictMatchMl
    \/ CallerDone

Spec == Init /\ [][Next]_vars

----------------------------------------------------------------------------
(* Specification SpecLoad: one process whose prediction calls open with
   load_models, of predict_glitch or of glitch_engine; reads counts the
   opens of each artifact file, up to MaxReads *)

CountReads(opened) ==
    [f \in ArtifactFiles |-> IF f \in opened THEN reads[f] + 1 ELSE reads[f]]

InitLoad ==
    /\ RaceIdle
    /\ TrainIdle
    /\ TeamsIdle
    /\ fs \in FileSets
    /\ models_cache = NoModels
    /\ config_cache = NoConfig
    /\ reads = NoReads
    /\ pc = "idle"
    /\ model_out = [win |-> <<0, 0, 0>>, goals |-> <<0, 0>>, btts |-> <<0, 0>>]
    /\ data_cache = None
    /\ result = NoResult
    /\ csv = <<>>
    /\ n_games = DefaultNGames
    /\ df = None
    /\ ret = NoRet
    /\ track = EmptyTrack
    /\ rows_out = <<>>
    /\ PairIdle
    /\ ScoutIdle
    /\ FeatIdle

PredictLoadModels ==
    /\ pc = "idle"
    /\ \A f \in predict_files_read(fs) : reads[f] < MaxReads
    /\ reads' = CountReads(predict_files_read(fs))
    /\ UNCHANGED <<statsVars, pairVars, predVars, scoutVars, featVars, pc, teamsVars, trainVars, raceVars>>

EngineLoadModels ==
    /\ pc = "idle"
    /\ \A f \in engine_files_read(fs, models_cache) : reads[f] < MaxReads
    /\ LET lm == engine_load_models(fs, models_cache, config_cache)
       IN /\ models_cache' = lm.mc
          /\ config_cache' = lm.cc
    /\ reads' = CountReads(engine_files_read(fs, models_cache))
    /\ UNCHANGED <<statsVars, pairVars, scoutVars, featVars, pc, fs, model_out,
                   data_cache, result, teamsVars, trainVars, raceVars>>

NextLoad ==
    \/ PredictLoadModels
    \/ EngineLoadModels

SpecLoad == InitLoad /\ [][NextLoad]_vars

----------------------------------------------------------------------------
(* Specification SpecTeams: one process of glitch_engine lists the teams of
   master_data.csv, which is present or absent, any number of times *)

ClubFixtures == {f \in Clubs \X Clubs : f[1] # f[2]}

ClubHistoriesOfLen(k) ==
    {[i \in 1..k |-> MkRow(i, c[i][1], c[i][2], 1, 0)] : c \in [1..k -> ClubFixtures]}

InitTeams ==
    /\ RaceIdle
    /\ TrainIdle
    /\ fs \in {f \in FileSets : ~f.features_json /\ f.pkl = {}}
    \* files listing the matches oldest first, or (short files) newest first
    /\ csv \in (IF fs.master_data
                THEN UNION {ClubHistoriesOfLen(k) : k \in 0..MaxLen}
                     \cup {Reverse(h) : h \in UNION {ClubHistoriesOfLen(k) :
                                                        k \in 0..MaxUnsortedLen}}
                ELSE {<<>>})
    /\ data_cache = None
    /\ teams_out = NoTeams
    /\ pc = "idle"
    /\ model_out = [win |-> <<0, 0, 0>>, goals |-> <<0, 0>>, btts |-> <<0, 0>>]
    /\ models_cache = NoModels
    /\ config_cache = NoConfig
    /\ result = NoResult
    /\ n_games = DefaultNGames
    /\ df = None
    /\ ret = NoRet
    /\ track = EmptyTrack
    /\ rows_out = <<>>
    /\ PairIdle
    /\ ScoutIdle
    /\ FeatIdle
    /\ LoadIdle

(* get_available_teams: load_historical_data, then the sorted listing *)
GetAvailableTeams ==
    /\ pc = "idle"
    /\ LET d == engine_load_historical_data(fs, csv, data_cache)
       IN /\ data_cache' = d
          /\ teams_out' = [fn |-> "get_available_teams",
                           teams |-> get_available_teams(d)]
    /\ pc' = "listed"
    /\ UNCHANGED <<statsVars, pairVars, fs, model_out, models_cache, config_cache,
                   result, scoutVars, featVars, loadVars, trainVars, raceVars>>

(* the caller is done with the listing *)
TeamsCallerDone ==
    /\ pc = "listed"
    /\ pc' = "idle"
    /\ teams_out' = NoTeams
    /\ UNCHANGED <<statsVars, pairVars, predVars, scoutVars, featVars, loadVars, trainVars, raceVars>>

NextTeams ==
    \/ GetAvailableTeams
    \/ TeamsCallerDone

SpecTeams == InitTeams /\ [][NextTeams]_vars

----------------------------------------------------------------------------
(* Specification SpecAgree: get_team_stats of either module is called with
   the default window on a history long enough for a team to have three or
   more matches at one venue and a match at the other *)

(* bound: longest history of SpecAgree *)
MaxAgreeLen == 4

AgreeScorelines == {<<1, 0>>, <<0, 1>>, <<1, 1>>}

InitAgree ==
    /\ RaceIdle
    /\ TrainIdle
    /\ csv \in UNION {HistoriesOver(k, AgreeScorelines) : k \in 0..MaxAgreeLen}
    /\ n_games = DefaultNGames
    /\ df = None
    /\ pc = "start"
    /\ ret = NoRet
    /\ track = EmptyTrack
    /\ rows_out = <<>>
    /\ PairIdle
    /\ PredIdle
    /\ ScoutIdle
    /\ FeatIdle
    /\ LoadIdle
    /\ TeamsIdle

NextAgree ==
    \/ LoadHistoricalData
    \/ EngineGetTeamStats
    \/ PredictGetTeamStats

SpecAgree == InitAgree /\ [][NextAgree]_vars

----------------------------------------------------------------------------
(* Specification SpecTrain: the training pipeline of train_glitch.main over
   one file: calculate_rolling_stats, create_targets, then prepare_data and
   train_single_model for one of the three targets *)

(* bound: longest history of drawn matches given to the pipeline *)
MaxTrainLen == 6

InitTrain ==
    /\ RaceIdle
    \* the files of SpecStats, and longer runs of drawn matches in which
    \* several rows have every feature defined
    /\ csv \in RawInputs \cup UNION {HistoriesOver(k, {<<1, 1>>}) : k \in 0..MaxTrainLen}
    /\ n_games \in NGames
    /\ df = None
    /\ pc = "start"
    /\ ret = NoRet
    /\ track = EmptyTrack
    /\ rows_out = <<>>
    /\ TrainIdle
    /\ PairIdle
    /\ PredIdle
    /\ ScoutIdle
    /\ FeatIdle
    /\ LoadIdle
    /\ TeamsIdle

CreateTargets ==
    /\ pc = "trained"
    /\ targets' = create_targets(df.rows)
    /\ pc' = "targets"
    /\ UNCHANGED <<statsVars, pairVars, predVars, scoutVars, featVars, loadVars,
                   teamsVars, split, raceVars>>

PrepareData ==
    /\ pc = "targets"
    /\ \E t \in 1..Len(TargetCols) :
        split' = [NoSplit EXCEPT
                    !.target_col = TargetCols[t],
                    !.clean = prepare_data(rows_out, targets, FeatureNames, TargetCols[t])]
    /\ pc' = "prepared"
    /\ UNCHANGED <<statsVars, pairVars, predVars, scoutVars, featVars, loadVars,
                   teamsVars, targets, raceVars>>

(* train_single_model up to the fit: the time-based split *)
TrainSingleModel ==
    /\ pc = "prepared"
    /\ LET s == train_test_split(split.clean)
       IN split' = [split EXCEPT !.train = s.train, !.test = s.test]
    /\ pc' = "split"
    /\ UNCHANGED <<statsVars, pairVars, predVars, scoutVars, featVars, loadVars,
                   teamsVars, targets, raceVars>>

NextTrain ==
    \/ RollingStart
    \/ RollingRow
    \/ RollingReturn
    \/ CreateTargets
    \/ PrepareData
    \/ TrainSingleModel

SpecTrain == InitTrain /\ [][NextTrain]_vars

----------------------------------------------------------------------------
(* Specification SpecRace: two callers run glitch_engine.load_models in one
   process at first use, interleaved between any two statements; the globals
   are models_cache and config_cache, and a write models_cache[name] goes to
   the dict the global names at that moment *)

InitRace ==
    /\ fs \in {f \in FileSets : ~f.master_data /\ f.features = FeatureNames}
    /\ models_cache = NoModels
    /\ config_cache = NoConfig
    /\ callers = [c \in Callers |-> [pc |-> "check", i |-> 1, got |-> NoGot]]
    /\ pc = "idle"
    /\ model_out = [win |-> <<0, 0, 0>>, goals |-> <<0, 0>>, btts |-> <<0, 0>>]
    /\ data_cache = None
    /\ result = NoResult
    /\ csv = <<>>
    /\ n_games = DefaultNGames
    /\ df = None
    /\ ret = NoRet
    /\ track = EmptyTrack
    /\ rows_out = <<>>
    /\ PairIdle
    /\ ScoutIdle
    /\ FeatIdle
    /\ LoadIdle
    /\ TeamsIdle
    /\ TrainIdle

Returns(c, models, config) ==
    callers' = [callers EXCEPT ![c].pc = "done",
                               ![c].got = [models |-> models, config |-> config]]

Goes(c, to) == callers' = [callers EXCEPT ![c].pc = to]

(* if _models_cache is not None: return _models_cache, _config_cache *)
LmCheck(c) ==
    /\ callers[c].pc = "check"
    /\ IF models_cache.ok THEN Returns(c, models_cache, config_cache)
       ELSE Goes(c, "config")
    /\ UNCHANGED <<models_cache, config_cache>>

(* with open(features.json): _config_cache = json.load(f) *)
LmConfig(c) ==
    /\ callers[c].pc = "config"
    /\ IF fs.features_json
       THEN /\ config_cache' = FeaturesJson(fs)
            /\ Goes(c, "init")
       ELSE /\ Returns(c, NoModels, NoConfig)
            /\ UNCHANGED config_cache
    /\ UNCHANGED models_cache

(* _models_cache = {} *)
LmInit(c) ==
    /\ callers[c].pc = "init"
    /\ models_cache' = [ok |-> TRUE, names |-> {}]
    /\ Goes(c, "load")
    /\ UNCHANGED config_cache

(* one round of the for loop: open and unpickle model_<name>.pkl, store it
   under _models_cache[name] *)
LmLoadOne(c) ==
    /\ callers[c].pc = "load"
    /\ LET name == Markets[callers[c].i] IN
       IF name \in fs.pkl
       THEN /\ models_cache' = [models_cache EXCEPT !.names = @ \cup {name}]
            /\ callers' = [callers EXCEPT
                             ![c].i = IF @ < Len(Markets) THEN @ + 1 ELSE @,
                             ![c].pc = IF callers[c].i < Len(Markets)
                                       THEN "load" ELSE "return"]
       ELSE /\ Returns(c, NoModels, NoConfig)
            /\ UNCHANGED models_cache
    /\ UNCHANGED config_cache

(* return _models_cache, _config_cache *)
LmReturn(c) ==
    /\ callers[c].pc = "return"
    /\ Returns(c, models_cache, config_cache)
    /\ UNCHANGED <<models_cache, config_cache>>

RaceFrame ==
    UNCHANGED <<statsVars, pairVars, fs, model_out, data_cache, result, scoutVars,
                featVars, loadVars, teamsVars, trainVars, pc>>

NextRace ==
    \/ \E c \in Callers : LmCheck(c) /\ RaceFrame
    \/ \E c \in Callers : LmConfig(c) /\ RaceFrame
    \/ \E c \in Callers : LmInit(c) /\ RaceFrame
    \/ \E c \in Callers : LmLoadOne(c) /\ RaceFrame
    \/ \E c \in Callers : LmReturn(c) /\ RaceFrame

SpecRace == InitRace /\ [][NextRace]_vars

----------------------------------------------------------------------------
(* Claims about the rolling statistics *)

SamePrefix(i) == SubSeq(df.rows, 1, i - 1) = SubSeq(df_b.rows, 1, i - 1)

SameFixture(i) ==
    /\ df.rows[i].HomeTeam = df_b.rows[i].HomeTeam
    /\ df.rows[i].AwayTeam = df_b.rows[i].AwayTeam

(* C1, as stated: two date-sorted histories identical at positions < i and
   differing in anything (results, goals or teams) at positions >= i get
   identical feature cells in row i *)
C1_NoLeakAnyDifference ==
    \A i \in 1..Len(rows_out) : SamePrefix(i) => rows_out[i] = rows_out_b[i]

(* C1, amended: two date-sorted histories identical at positions < i, whose
   match i has the same home and away team, get identical feature cells in
   row i whatever the result and goals of match i and whatever the later
   matches are *)
C1_NoLeakSameFixture ==
    \A i \in 1..Len(rows_out) :
        (SamePrefix(i) /\ SameFixture(i)) => rows_out[i] = rows_out_b[i]

(* a row written in both runs, same prefix and fixture, different result,
   with form and home averages defined *)
C1_Witness ==
    \E i \in 1..Len(rows_out) :
        /\ SamePrefix(i) /\ SameFixture(i)
        /\ df.rows[i].FTR # df_b.rows[i].FTR
        /\ ~IsNaN(rows_out[i].HomeTeam_Form)
        /\ ~IsNaN(rows_out[i].Home_Avg_Goals)
        /\ ~IsNaN(rows_out_b[i].AwayTeam_Form)

(* the window the last call summed the form over *)
SelectedWindow ==
    IF ret.fn = "engine"
    THEN engine_venue_games(df.rows, ret.team, ret.is_home, n_games)
    ELSE predict_venue_games(df.rows, ret.team, ret.is_home, n_games)

(* C8: with a non-empty selected window the form returned by get_team_stats
   (either module) is an integer in 0..3*N, and every defined HomeTeam_Form
   and AwayTeam_Form cell written by calculate_rolling_stats is in 0..3*N *)
C8_FormInRange ==
    /\ (pc = "returned" /\ SelectedWindow # <<>>) =>
            ret.stats.form \in 0..(3 * n_games)
    /\ \A i \in 1..Len(rows_out) :
         \A c \in {"HomeTeam_Form", "AwayTeam_Form"} :
            ~IsNaN(rows_out[i][c]) =>
                /\ rows_out[i][c][2] = 1
                /\ rows_out[i][c][1] \in 0..(3 * n_games)

(* a call that returned the top of the range over a full window *)
C8_Witness ==
    /\ pc = "returned"
    /\ n_games = 2
    /\ Len(SelectedWindow) = 2
    /\ ret.stats.form = 6

(* C9: for a team in no match of the history get_team_stats (either module,
   either venue) returns form 7, avg_goals 1.3, avg_conceded 1.2,
   btts_rate 50.0 *)
C9_AbsentTeamDefaults ==
    (pc = "returned" /\ ret.team \notin TeamsIn(df.rows)) =>
        ret.stats = [form |-> 7, avg_goals |-> <<13, 10>>,
                     avg_conceded |-> <<6, 5>>, btts_rate |-> <<50, 1>>]

(* an away query of the engine for a team absent from a non-empty history *)
C9_Witness ==
    /\ pc = "returned"
    /\ ret.fn = "engine"
    /\ ~ret.is_home
    /\ Len(df.rows) = MaxLen
    /\ ret.team \notin TeamsIn(df.rows)
    /\ ret.stats.form = 7

(* points from the goals scored by the team and by its opponent *)
OwnGoals(row, team) == IF row.HomeTeam = team THEN row.FTHG ELSE row.FTAG
OppGoals(row, team) == IF row.HomeTeam = team THEN row.FTAG ELSE row.FTHG

PerspectiveForm(window, team) ==
    3 * Cardinality({i \in 1..Len(window) :
                        OwnGoals(window[i], team) > OppGoals(window[i], team)})
    + Cardinality({i \in 1..Len(window) :
                        OwnGoals(window[i], team) = OppGoals(window[i], team)})

(* C10: the form returned by get_team_stats is the sum over the selected
   window of 3 per win, 1 per draw, 0 per loss of the queried team, its side
   taken per match and not from the venue flag; five home matches H,H,D,A,H
   give home form 10 *)
C10_FormFromOwnPerspective ==
    /\ (pc = "returned" /\ SelectedWindow # <<>>) =>
            ret.stats.form = PerspectiveForm(SelectedWindow, ret.team)
    /\ (pc = "returned" /\ csv = ScenarioDf /\ n_games = DefaultNGames
            /\ ret.team = "Arsenal" /\ ret.is_home) =>
            ret.stats.form = 10

(* a home query answered from the all-venues window, in which the team won
   an away match *)
C10_Witness ==
    /\ pc = "returned"
    /\ ret.is_home
    /\ \E i \in 1..Len(SelectedWindow) :
        /\ SelectedWindow[i].AwayTeam = ret.team
        /\ SelectedWindow[i].FTR = "A"
    /\ ret.stats.form >= 3

(* the scenario of the specification has been queried *)
C10_ScenarioReached ==
    /\ pc = "returned" /\ csv = ScenarioDf /\ n_games = DefaultNGames
    /\ ret.team = "Arsenal" /\ ret.is_home /\ ret.stats.form = 10

----------------------------------------------------------------------------
(* Claims about the predictors *)

ArtifactsComplete == fs.features_json /\ fs.pkl = MarketSet

Responded == pc = "responded"

HasUnknownTeam ==
    \/ result.home_team \notin TeamsIn(csv)
    \/ result.away_team \notin TeamsIn(csv)

(* C2: with every artifact and the history in place, a call of
   predict_all_markets or predict_match_ml for a home or away team that is
   in no match of the history ends in an unknown-team error and returns
   neither market predictions nor a safest_glitch *)
C2_UnknownTeamRejected ==
    (/\ Responded
     /\ result.api \in {"predict_all_markets", "predict_match_ml"}
     /\ ArtifactsComplete /\ fs.master_data
     /\ HasUnknownTeam)
    => /\ result.detail = "team not found"
       /\ "predictions" \notin result.keys
       /\ "safest_glitch" \notin result.keys

(* C3: with features.json or a model_*.pkl missing, predict_all_markets
   returns no error outcome but a heuristic prediction with using_ml false *)
C3_PredictDegradesToHeuristic ==
    (Responded /\ result.api = "predict_all_markets" /\ ~ArtifactsComplete)
    => /\ result.outcome = "returned"
       /\ "error" \notin result.keys
       /\ "predictions" \in result.keys
       /\ "using_ml" \in result.keys /\ ~result.using_ml

(* C4: while a model artifact is missing, every predict_match_ml call of
   the process, the first and the later ones, returns a heuristic result
   with using_ml false and none raises *)
C4_EngineAlwaysHeuristic ==
    (Responded /\ result.api = "predict_match_ml" /\ ~ArtifactsComplete)
    => /\ result.outcome = "returned"
       /\ "using_ml" \in result.keys /\ ~result.using_ml

(* a result computed from the three models *)
ModelBased ==
    /\ Responded
    /\ "predictions" \in result.keys
    /\ \/ result.api \in {"predict_all_markets", "main"}
       \/ result.api = "predict_match_ml" /\ result.using_ml

MarketNamesOf(api) ==
    IF api = "predict_match_ml" THEN EngineMarketNames ELSE PredictMarketNames

ConfidenceOf(i) == result.predictions[Markets[i]].confidence

IsTopConfidence(c) == \A i \in 1..3 : ~FLess(c, ConfidenceOf(i))

(* C5: in a model-based result safest_glitch.confidence is the largest of
   the three markets' best probabilities, and safest_glitch.market and .bet
   are the name and best label of a market that attains it *)
C5_SafestIsMaximum ==
    ModelBased =>
        /\ IsTopConfidence(result.safest_glitch.confidence)
        /\ \E i \in 1..3 :
            /\ result.safest_glitch.market = MarketNamesOf(result.api)[i]
            /\ result.safest_glitch.bet = result.predictions[Markets[i]].best
            /\ result.safest_glitch.confidence = ConfidenceOf(i)

(* the BTTS market alone holds the largest probability and is picked *)
C5_Witness ==
    /\ ModelBased
    /\ FLess(ConfidenceOf(1), ConfidenceOf(3))
    /\ FLess(ConfidenceOf(2), ConfidenceOf(3))
    /\ result.safest_glitch.market = MarketNamesOf(result.api)[3]

(* C6: when several markets share the largest best probability, the safest
   glitch is the first of them in the order result (win), goals, btts *)
C6_TieGoesToFirstMarket ==
    ModelBased =>
        \A i \in 1..3 :
            (IsTopConfidence(ConfidenceOf(i))
             /\ \A j \in 1..(i - 1) : ~IsTopConfidence(ConfidenceOf(j)))
            => result.safest_glitch.market = MarketNamesOf(result.api)[i]

(* goals and btts tie above the result market, and goals is picked *)
C6_Witness ==
    /\ ModelBased
    /\ result.api = "predict_match_ml"
    /\ ConfidenceOf(2) = ConfidenceOf(3)
    /\ FLess(ConfidenceOf(1), ConfidenceOf(2))
    /\ result.safest_glitch.market = "Goals"

(* C7: in every result with a market breakdown the probabilities of each
   market sum to 100: home+draw+away, over+under, yes+no *)
C7_MarketsSumTo100 ==
    (Responded /\ "predictions" \in result.keys) =>
        \A i \in 1..3 : FSum(result.predictions[Markets[i]].probs) = <<100, 1>>

(* C7 restricted to the model-based results *)
C7_ModelMarketsSumTo100 ==
    ModelBased =>
        \A i \in 1..3 : FSum(result.predictions[Markets[i]].probs) = <<100, 1>>

----------------------------------------------------------------------------
(* Claims about the squad gate *)

(* a predict_all_markets call that got as far as the squad check and whose
   gate answered *)
GateAnswered ==
    /\ Responded
    /\ result.api = "predict_all_markets"
    /\ result.check_squad
    /\ squad_check(result.home_team, result.away_team, TRUE,
                   result.scout).status = "returned"

GateNews ==
    squad_check(result.home_team, result.away_team, TRUE, result.scout).news

(* C11: when the gate answers should_skip = true, predict_all_markets with
   check_squad = true returns skipped = true with the gate's skip_reason,
   neither 'predictions' nor 'safest_glitch', and queries no model *)
C11_SkipHasNoPredictions ==
    (GateAnswered /\ GateNews.should_skip) =>
        /\ result.outcome = "returned"
        /\ {"skipped", "skip_reason"} \subseteq result.keys
        /\ result.skipped
        /\ result.skip_reason = GateNews.skip_reason
        /\ result.skip_reason.ok
        /\ "predictions" \notin result.keys
        /\ "safest_glitch" \notin result.keys
        /\ result.queried = {}

(* Arsenal at home is below the threshold and the call was skipped *)
C11_Witness ==
    /\ GateAnswered
    /\ GateNews.should_skip
    /\ GateNews.skip_reason.weak_team = "Home"
    /\ result.home_team = "Arsenal"
    /\ result.skipped

(* the two squad-strength scores of the call: 100 for a team not asked about *)
HomeScore ==
    IF gate_in.home_team_id = NoTeamId THEN 100
    ELSE calculate_squad_strength(gate_in.home_team_id,
                                  get_injuries(gate_in.home_response)).score

AwayScore ==
    IF gate_in.away_team_id = NoTeamId THEN 100
    ELSE calculate_squad_strength(gate_in.away_team_id,
                                  get_injuries(gate_in.away_response)).score

(* C12: get_team_news sets should_skip exactly when the smaller of the home
   and away squad-strength scores is strictly below 70, and skip_reason is
   non-null exactly when should_skip is true *)
C12_SkipIffMinBelow70 ==
    (gate_out.done /\ ~gate_out.raised) =>
        /\ gate_out.news.should_skip <=> (HomeScore < 70 \/ AwayScore < 70)
        /\ gate_out.news.skip_reason.ok <=> gate_out.news.should_skip

(* the away squad is just below the threshold and the home squad is exactly
   on it *)
C12_Witness ==
    /\ gate_out.done /\ ~gate_out.raised
    /\ HomeScore = 70
    /\ AwayScore = 67
    /\ gate_out.news.should_skip
    /\ gate_out.news.skip_reason = [ok |-> TRUE, weak_team |-> "Away", min_score |-> 67]

----------------------------------------------------------------------------
(* Claims about feature construction *)

(* the stat a feature name stands for *)
StatNamed(name) ==
    LET side == IF name \in {"HomeTeam_Form", "Home_Avg_Goals", "Home_Avg_Conceded",
                             "Home_BTTS_Rate"}
                THEN feat_in.home_stats ELSE feat_in.away_stats
    IN IF name \in {"HomeTeam_Form", "AwayTeam_Form"} THEN <<side.form, 1>>
       ELSE IF name \in {"Home_Avg_Goals", "Away_Avg_Goals"} THEN side.avg_goals
       ELSE IF name \in {"Home_Avg_Conceded", "Away_Avg_Conceded"} THEN side.avg_conceded
       ELSE side.btts_rate

IsOrdering(cols) ==
    /\ Len(cols) = Len(FeatureNames)
    /\ {cols[i] : i \in 1..Len(cols)} = BuiltFeatureNames

(* C13: for every ordering of the eight names in the schema, the frame
   handed to the models has its columns in the schema's order and each
   column holds the stat of its name: HomeTeam_Form the home form,
   AwayTeam_Form the away form, and so on for goals, conceded and BTTS rate *)
C13_VectorFollowsSchema ==
    (feat_out.fn # "none" /\ IsOrdering(feat_in.feature_cols)) =>
        /\ feat_out.frame.ok
        /\ feat_out.frame.columns = feat_in.feature_cols
        /\ Len(feat_out.frame.values) = Len(feat_in.feature_cols)
        /\ \A i \in 1..Len(feat_in.feature_cols) :
              feat_out.frame.values[i] = StatNamed(feat_in.feature_cols[i])

(* prepare_features answered a schema that starts with the away BTTS rate
   and ends with the home form *)
C13_Witness ==
    /\ feat_out.fn = "prepare_features"
    /\ IsOrdering(feat_in.feature_cols)
    /\ feat_in.feature_cols[1] = "Away_BTTS_Rate"
    /\ feat_in.feature_cols[8] = "HomeTeam_Form"
    /\ feat_out.frame.ok
    /\ feat_out.frame.values[1] = feat_in.away_stats.btts_rate
    /\ feat_out.frame.values[8] = <<feat_in.home_stats.form, 1>>

----------------------------------------------------------------------------
(* Claims about the predictors, continued *)

(* C14: when features.json names a field that is not one of the eight built
   from the stats objects, feature construction raises before a model is
   queried and the call returns no prediction result; a call that ended
   without raising had returned before feature construction *)
C14_UnknownFieldFails ==
    (/\ Responded
     /\ result.api \in {"predict_all_markets", "predict_match_ml"}
     /\ ArtifactsComplete
     /\ ~SchemaKnown(fs.features))
    => /\ "predictions" \notin result.keys
       /\ "safest_glitch" \notin result.keys
       /\ result.queried = {}
       /\ \/ result.outcome = "raised" /\ result.detail = "KeyError"
          \/ /\ result.api = "predict_all_markets"
             /\ result.keys = {"error"} \/ result.skipped

(* predict_all_markets passed the squad check and raised on the schema *)
C14_Witness ==
    /\ GateAnswered
    /\ ~GateNews.should_skip
    /\ ArtifactsComplete
    /\ ~SchemaKnown(fs.features)
    /\ result.outcome = "raised"
    /\ result.detail = "KeyError"

(* C15: with master_data.csv missing, predict_all_markets, and
   predict_match_ml with the models loaded, end in an error outcome and
   return no market predictions computed from default stats *)
C15_MissingHistoryIsError ==
    (/\ Responded
     /\ result.api \in {"predict_all_markets", "predict_match_ml"}
     /\ ~fs.master_data
     /\ result.api = "predict_match_ml" => ArtifactsComplete)
    => /\ result.outcome = "raised" \/ "error" \in result.keys
       /\ "predictions" \notin result.keys

(* what get_team_news comes to for the teams and injuries answers of the
   last call *)
GateReturn ==
    get_team_news(get_team_id(result.home_team), get_team_id(result.away_team),
                  result.scout.home_response, result.scout.away_response)

(* no injuries request of the last call was answered *)
AllRequestsFailed ==
    /\ get_team_id(result.home_team) # NoTeamId =>
            result.scout.home_response.kind = "request_error"
    /\ get_team_id(result.away_team) # NoTeamId =>
            result.scout.away_response.kind = "request_error"

(* the squad-risk provider failed: scout cannot be imported, get_team_news
   raised, or every injuries request failed *)
ProviderFailed ==
    \/ ~result.scout.importable
    \/ GateReturn.raised
    \/ AllRequestsFailed

(* C16: a predict_all_markets call whose squad-risk provider failed is not
   skipped and, the schema being known, returns the full result with
   skipped = false; a call is skipped only when get_team_news returned
   normally with should_skip = true *)
C16_ProviderFailureNeverBlocks ==
    (Responded /\ result.api = "predict_all_markets" /\ result.check_squad) =>
        /\ ProviderFailed =>
              /\ ~result.skipped
              /\ SchemaKnown(fs.features) =>
                    /\ result.outcome = "returned"
                    /\ PredictResultKeys \subseteq result.keys
                    /\ result.queried = MarketSet
        /\ result.skipped =>
              /\ result.scout.importable
              /\ ~GateReturn.raised
              /\ GateReturn.news.should_skip

(* get_team_news raised on the home team's injuries and the call still
   returned its predictions *)
C16_Witness ==
    /\ Responded /\ result.api = "predict_all_markets" /\ result.check_squad
    /\ result.scout.importable
    /\ result.scout.home_response.kind = "error"
    /\ result.home_team = "Arsenal"
    /\ GateReturn.raised
    /\ result.outcome = "returned"
    /\ "predictions" \in result.keys
    /\ ~result.skipped

----------------------------------------------------------------------------
(* Claims about model loading *)

(* C17: over any sequence of prediction calls of one process, each of the
   three classifier files and the feature schema is read from storage at
   most once, on first use; later calls reuse the loaded objects *)
C17_ArtifactsReadOnce ==
    \A f \in ArtifactFiles : reads[f] <= 1

----------------------------------------------------------------------------
(* Claims about training against inference *)

AllDefined(cells) == \A i \in 1..Len(FeatureNames) : ~IsNaN(cells[FeatureNames[i]])

(* the history strictly before row i *)
Before(i) == SubSeq(df.rows, 1, i - 1)

(* C18: for every row i whose eight training features are all defined, the
   cells calculate_rolling_stats wrote for row i equal the stats
   get_team_stats (of either module) computes from the matches before row i
   for the row's home team with is_home = True and for its away team with
   is_home = False *)
C18_TrainingMatchesInference ==
    \A i \in 1..Len(rows_out) :
        AllDefined(rows_out[i]) =>
            /\ rows_out[i] =
                 FeatureDict(
                    predict_get_team_stats(Before(i), df.rows[i].HomeTeam, TRUE, n_games),
                    predict_get_team_stats(Before(i), df.rows[i].AwayTeam, FALSE, n_games))
            /\ rows_out[i] =
                 FeatureDict(
                    engine_get_team_stats(Some(Before(i)), df.rows[i].HomeTeam, TRUE,
                                          n_games),
                    engine_get_team_stats(Some(Before(i)), df.rows[i].AwayTeam, FALSE,
                                          n_games))

----------------------------------------------------------------------------
(* Claims about the per-market answers *)

(* the labels of market i in the order of its probabilities *)
LabelsOf(api, i) ==
    IF i = 1 THEN <<"Home Win", "Draw", "Away Win">>
    ELSE IF i = 2 THEN <<"Under 2.5", "Over 2.5">>
    ELSE IF api = "predict_match_ml" THEN <<"BTTS No", "BTTS Yes">>
    ELSE <<"No BTTS", "BTTS">>

(* market i reports a label of highest probability and that probability *)
BestIsArgmax(i) ==
    LET market == result.predictions[Markets[i]]
        labels == LabelsOf(result.api, i)
    IN \E k \in 1..Len(market.probs) :
        /\ market.best = labels[k]
        /\ \A j \in 1..Len(market.probs) : ~FLess(market.probs[k], market.probs[j])
        /\ market.confidence = market.probs[k]

(* C19, as stated: in every returned result with a market breakdown, from
   the models or from predict_match_heuristic, each market's best label is
   the label of highest probability in that market and its confidence is
   that probability *)
C19_BestIsArgmaxEverywhere ==
    (Responded /\ "predictions" \in result.keys) => \A i \in 1..3 : BestIsArgmax(i)

(* C19, amended: in every model-based result each market's best label is
   the label of highest probability in that market's distribution and its
   confidence (best_prob) is that probability *)
C19_BestIsArgmaxOfModels ==
    ModelBased => \A i \in 1..3 : BestIsArgmax(i)

(* the win model puts the draw strictly on top and Draw is reported *)
C19_Witness ==
    /\ ModelBased
    /\ FLess(result.predictions.win.probs[1], result.predictions.win.probs[2])
    /\ FLess(result.predictions.win.probs[3], result.predictions.win.probs[2])
    /\ result.predictions.win.best = "Draw"
    /\ result.predictions.win.confidence = result.predictions.win.probs[2]

(* C20: every confidence of a heuristic fallback result (win, goals, btts
   and safest_glitch) lies between 50 and 60 percent *)
C20_HeuristicConfidenceRange ==
    (Responded /\ result.api = "predict_match_ml" /\ "using_ml" \in result.keys
        /\ ~result.using_ml) =>
        \A c \in {result.predictions.win.confidence, result.predictions.goals.confidence,
                  result.predictions.btts.confidence, result.safest_glitch.confidence} :
            ~FLess(c, <<50, 1>>) /\ ~FLess(<<60, 1>>, c)

----------------------------------------------------------------------------
(* Claims about the heuristic fallback *)

HeuristicResult ==
    /\ Responded
    /\ result.api = "predict_match_ml"
    /\ "using_ml" \in result.keys
    /\ ~result.using_ml

(* C21: in a heuristic fallback result safest_glitch is the pick of highest
   confidence among the three markets: no market's confidence exceeds its
   confidence, and its bet and confidence are those of one market *)
C21_HeuristicSafestIsMaximum ==
    HeuristicResult =>
        /\ \A i \in 1..3 :
               ~FLess(result.safest_glitch.confidence,
                      result.predictions[Markets[i]].confidence)
        /\ \E i \in 1..3 :
               /\ result.safest_glitch.bet = result.predictions[Markets[i]].best
               /\ result.safest_glitch.confidence = result.predictions[Markets[i]].confidence

----------------------------------------------------------------------------
(* Claims about the rates of get_team_stats *)

(* positions of the matches the queried team played at the queried venue *)
VenueIdx ==
    {i \in 1..Len(df.rows) :
        IF ret.is_home THEN df.rows[i].HomeTeam = ret.team
        ELSE df.rows[i].AwayTeam = ret.team}

(* the last n_games of them *)
VenueWindowIdx ==
    {i \in VenueIdx : Cardinality({j \in VenueIdx : j > i}) < n_games}

(* goals summed over a set of positions, counted one by one *)
GoalsScoredIn(S) ==
    Cardinality(UNION {{<<i, g>> : g \in 1..OwnGoals(df.rows[i], ret.team)} : i \in S})
GoalsConcededIn(S) ==
    Cardinality(UNION {{<<i, g>> : g \in 1..OppGoals(df.rows[i], ret.team)} : i \in S})
BothScoredIn(S) ==
    Cardinality({i \in S : df.rows[i].FTHG > 0 /\ df.rows[i].FTAG > 0})

(* the rational q is a / b *)
IsRatio(q, a, b) == q[2] > 0 /\ q[1] * b = a * q[2]

(* C22: for a team with matches in the history, the avg_goals, avg_conceded
   and btts_rate returned by get_team_stats (either module) are the means
   over the team's last N matches at the queried venue only, whatever window
   the form was summed over; with no match at the queried venue they are
   1.3/1.2/50.0 for a home query and 1.1/1.4/50.0 for an away query *)
C22_RatesFromVenueWindow ==
    (pc = "returned" /\ ret.team \in TeamsIn(df.rows)) =>
        LET W == VenueWindowIdx
            k == Cardinality(W)
        IN IF k = 0
           THEN /\ ret.stats.avg_goals = (IF ret.is_home THEN <<13, 10>> ELSE <<11, 10>>)
                /\ ret.stats.avg_conceded = (IF ret.is_home THEN <<6, 5>> ELSE <<7, 5>>)
                /\ ret.stats.btts_rate = <<50, 1>>
           ELSE /\ IsRatio(ret.stats.avg_goals, GoalsScoredIn(W), k)
                /\ IsRatio(ret.stats.avg_conceded, GoalsConcededIn(W), k)
                /\ IsRatio(ret.stats.btts_rate, 100 * BothScoredIn(W), k)

(* the form came from the all-venues window, which holds a match at the
   other venue, and the goals average is that of the venue matches alone *)
C22_Witness ==
    /\ pc = "returned"
    /\ VenueWindowIdx # {}
    /\ Len(SelectedWindow) > Cardinality(VenueWindowIdx)
    /\ \E i \in 1..Len(SelectedWindow) :
           OwnGoals(SelectedWindow[i], ret.team) > 0
           /\ (IF ret.is_home THEN SelectedWindow[i].AwayTeam ELSE SelectedWindow[i].HomeTeam) = ret.team
    /\ GoalsScoredIn(VenueWindowIdx) = 0
    /\ ret.stats.avg_goals = <<0, 1>>

(* a team with matches, none of them at the queried venue *)
C22_VenueDefaultsReached ==
    /\ pc = "returned"
    /\ ret.team \in TeamsIn(df.rows)
    /\ VenueWindowIdx = {}
    /\ ~ret.is_home
    /\ ret.stats.avg_goals = <<11, 10>>

----------------------------------------------------------------------------
(* Claims about the team listing *)

Listed == pc = "listed"

(* C23: get_available_teams returns exactly the identifiers that occur as
   HomeTeam or AwayTeam in the history, each once, in ascending order, and
   the empty list when the history cannot be loaded *)
C23_TeamsSortedSet ==
    Listed =>
        LET teams == teams_out.teams IN
        IF ~fs.master_data THEN teams = <<>>
        ELSE /\ {teams[i] : i \in 1..Len(teams)}
                    = {t \in Clubs : \E i \in 1..Len(csv) :
                                        csv[i].HomeTeam = t \/ csv[i].AwayTeam = t}
             /\ \A i, j \in 1..Len(teams) : i < j => StrLess(teams[i], teams[j])

(* a file whose first row names the clubs out of order and that repeats a
   club, listed as all three clubs *)
C23_Witness ==
    /\ Listed
    /\ Len(csv) = MaxLen
    /\ csv[1].HomeTeam = "Liverpool"
    /\ csv[1].AwayTeam = "Chelsea"
    /\ csv[2].HomeTeam = "Liverpool"
    /\ teams_out.teams = <<"Arsenal", "Chelsea", "Liverpool">>

(* the file is absent and the listing is empty *)
C23_NoHistoryReached ==
    /\ Listed
    /\ ~fs.master_data
    /\ teams_out.teams = <<>>

----------------------------------------------------------------------------
(* Claims about the shape of the engine's results *)

EngineReturned ==
    /\ Responded
    /\ result.api = "predict_match_ml"
    /\ result.outcome = "returned"

(* C24: every result returned by glitch_engine.predict_match_ml, from the
   models or from the heuristic fallback, has the keys match, predictions
   and safest_glitch, with win inside predictions and confidence inside
   safest_glitch *)
C24_EngineResultStructure ==
    EngineReturned =>
        /\ {"match", "predictions", "safest_glitch"} \subseteq result.keys
        /\ "win" \in DOMAIN result.predictions
        /\ "confidence" \in DOMAIN result.safest_glitch

(* a fallback result returned although the history is missing too *)
C24_Witness ==
    /\ EngineReturned
    /\ ~result.using_ml
    /\ ~fs.master_data
    /\ "match" \in result.keys
    /\ result.safest_glitch.market = "Match Result"

(* a model-based result of the engine *)
C24_ModelResultReached ==
    /\ EngineReturned
    /\ result.using_ml
    /\ "match" \in result.keys

----------------------------------------------------------------------------
(* Claims about the two inference implementations *)

(* what the other module's get_team_stats returns for the same arguments *)
OtherModuleStats ==
    IF ret.fn = "engine"
    THEN predict_get_team_stats(df.rows, ret.team, ret.is_home, n_games)
    ELSE engine_get_team_stats(df, ret.team, ret.is_home, n_games)

(* C25: for every history, team and venue flag, with N = 5,
   glitch_engine.get_team_stats and predict_glitch.get_team_stats return
   the same form, avg_goals, avg_conceded and btts_rate *)
C25_ImplementationsAgree ==
    (pc = "returned" /\ n_games = DefaultNGames) => ret.stats = OtherModuleStats

(* the goals half of C26: Over 2.5 exactly when the two goal averages sum
   to more than 2.5 *)
HeuristicGoalsPick ==
    HeuristicResult =>
        (result.predictions.goals.best = "Over 2.5"
            <=> FLess(<<5, 2>>, FAdd(result.home_stats.avg_goals,
                                     result.away_stats.avg_goals)))
        /\ result.predictions.goals.best \in {"Over 2.5", "Under 2.5"}

(* C26: in predict_match_heuristic the goals pick is Over 2.5 exactly when
   home avg_goals + away avg_goals > 2.5 (else Under 2.5), the BTTS pick is
   BTTS Yes exactly when the average of the home and away btts_rate exceeds
   50 (else BTTS No), and so the BTTS pick is the side with the larger
   reported percentage *)
C26_HeuristicPicks ==
    HeuristicResult =>
        LET btts == result.predictions.btts
            avg == FHalf(FAdd(result.home_stats.btts_rate, result.away_stats.btts_rate))
        IN /\ HeuristicGoalsPick
           /\ btts.best = (IF FLess(<<50, 1>>, avg) THEN "BTTS Yes" ELSE "BTTS No")
           /\ btts.best = "BTTS Yes" => ~FLess(btts.probs[2], btts.probs[1])
           /\ btts.best = "BTTS No" => ~FLess(btts.probs[1], btts.probs[2])

----------------------------------------------------------------------------
(* Claims about the training pipeline *)

TargetsCreated == pc \in {"targets", "prepared", "split"}

(* position of row i among the home matches of its home team *)
HomeOrdinal(i) ==
    Cardinality({j \in 1..i : df.rows[j].HomeTeam = df.rows[i].HomeTeam})

(* C27: create_targets labels every match from its raw outcome: Target_Win
   is 0/1/2 for FTR = H/D/A, Target_Goals is 1 exactly when FTHG + FTAG >= 3,
   Target_BTTS is 1 exactly when FTHG > 0 and FTAG > 0, which is the value
   calculate_rolling_stats tracked for the match and the match's count in
   the BTTS rate of get_team_stats *)
C27_TargetsFromOutcome ==
    TargetsCreated =>
        /\ Len(targets) = Len(df.rows)
        /\ \A i \in 1..Len(targets) :
            LET row == df.rows[i] IN
            /\ row.FTR = "H" => targets[i].Target_Win = 0
            /\ row.FTR = "D" => targets[i].Target_Win = 1
            /\ row.FTR = "A" => targets[i].Target_Win = 2
            /\ targets[i].Target_Goals = 1 <=> row.FTHG + row.FTAG >= 3
            /\ targets[i].Target_BTTS = 1 <=> (row.FTHG > 0 /\ row.FTAG > 0)
            /\ targets[i].Target_Goals \in {0, 1}
            /\ targets[i].Target_BTTS \in {0, 1}
            /\ targets[i].Target_BTTS = track.home_btts[row.HomeTeam][HomeOrdinal(i)]
            /\ targets[i].Target_BTTS = BttsCount(<<row>>)

(* a file given newest first, labelled in date order: a 2-1 home win after
   an away win in which only one side scored *)
C27_Witness ==
    /\ TargetsCreated
    /\ Len(csv) = 2
    /\ csv[1].Date > csv[2].Date
    /\ csv[1].FTHG = 2 /\ csv[1].FTAG = 1
    /\ csv[2].FTR = "A"
    /\ targets[1] = [Target_Win |-> 2, Target_Goals |-> 0, Target_BTTS |-> 0]
    /\ targets[2] = [Target_Win |-> 0, Target_Goals |-> 1, Target_BTTS |-> 1]

SplitDone == pc = "split"

Elems(s) == {s[i] : i \in 1..Len(s)}

(* C28: the split is temporal: prepare_data keeps the rows whose eight
   features are all defined, train_single_model trains on the first
   floor(0.8 * len) of them in date order and tests on the rest, so every
   training row precedes every test row chronologically and no row is in
   both sets *)
C28_TemporalSplit ==
    SplitDone =>
        /\ Elems(split.clean) =
               {i \in 1..Len(df.rows) :
                   \A c \in BuiltFeatureNames : ~IsNaN(rows_out[i][c])}
        /\ split.train \o split.test = split.clean
        /\ 5 * Len(split.train) <= 4 * Len(split.clean)
        /\ 4 * Len(split.clean) < 5 * (Len(split.train) + 1)
        /\ Elems(split.train) \cap Elems(split.test) = {}
        /\ \A a \in Elems(split.train), b \in Elems(split.test) :
               a < b /\ df.rows[a].Date <= df.rows[b].Date
        /\ \A i, j \in 1..Len(df.rows) : i < j => df.rows[i].Date <= df.rows[j].Date

(* rows with undefined features were dropped, and both sets are
   populated *)
C28_Witness ==
    /\ SplitDone
    /\ Len(split.clean) < Len(df.rows)
    /\ Len(split.train) >= 2
    /\ Len(split.test) >= 1
    /\ split.train[Len(split.train)] + 1 = split.test[1]

----------------------------------------------------------------------------
(* Claims about the caches of glitch_engine *)

(* C29: after any sequence of load_models calls, _models_cache is None (and
   then _config_cache is None too) or holds the three models win, goals and
   btts together with a non-None _config_cache *)
C29_CacheAllOrNothing ==
    \/ ~models_cache.ok /\ ~config_cache.ok
    \/ models_cache.ok /\ models_cache.names = MarketSet /\ config_cache.ok

(* C30: two callers of glitch_engine.load_models interleaved at any point
   each get (None, None) or a model bank holding win, goals and btts *)
C30_NoPartialBankUnderRace ==
    \A c \in Callers :
        callers[c].pc = "done" =>
            \/ callers[c].got = NoGot
            \/ /\ callers[c].got.models.ok
               /\ callers[c].got.models.names = MarketSet
               /\ callers[c].got.config.ok

====
